---- MODULE Spec2Model ----
(***************************************************************************)
(* VAST 2.0 ad engine: wrapper-resolving parser (VastParser), tracker      *)
(* dispatcher (TrackingManager), quartile detector (QuartileTracker) and   *)
(* the orchestrator (AdContainer).                                         *)
(*                                                                         *)
(* Asynchronous methods are cut at their await points: one action runs a   *)
(* handler from the event that resumes it up to its next await.            *)
(***************************************************************************)
EXTENDS Integers, Sequences, FiniteSets, TLC

(* ------------------------------ bounds --------------------------------- *)
\* document URLs 1..NumUrls
NumUrls == 3
\* loadAd calls that get to create an AdContainer
MaxLoads == 3
\* largest configured maxWrapperDepth (0 stands for an absent/falsy config)
MaxConfigDepth == 2
\* top-level parse() calls made on one VastParser instance
MaxResolves == 2
\* fireTrackers() calls in one behaviour of the dispatcher
MaxBatches == 2
\* URLs in one fireTrackers() batch
MaxBatchLen == 3
\* length of the played medium in position ticks (one tick = the tolerance)
MaxDuration == 8
\* onFire calls counted per event kind
MaxFires == 2
\* init(), play() and destroy() calls made on one AdContainer
MaxCalls == 3
\* largest configured quartileTolerance in ticks (0 stands for absent)
MaxToleranceCfg == 2
\* wrapper levels above the InLine in a merged chain
MaxLevels == 2
\* MediaFile elements in one ranked document
MaxMedia == 3
\* beacon attempts (fireTracker calls) in one behaviour
MaxAttempts == 3

\* the longest Duration text
MaxDurationLen == 5

(* -------------------------- program constants -------------------------- *)
DefaultMaxWrapperDepth == 3
XML_PARSING_ERROR == 100
VAST_SCHEMA_VALIDATION_ERROR == 101
TRAFFICKING_ERROR == 200
WRAPPER_LIMIT_REACHED == 302
GENERAL_LINEAR_ERROR == 400
MEDIA_FILE_NOT_FOUND == 403
UNDEFINED_ERROR == 900

URLs == 1..NumUrls
NoUrl == 0

\* VastEventType
Events == {"Impression", "Start", "FirstQuartile", "Midpoint",
           "ThirdQuartile", "Complete", "Pause", "Resume", "Mute", "Unmute",
           "Fullscreen", "ExitFullscreen", "Skip", "Click", "Error"}

(* ----------------------------- documents ------------------------------- *)
\* A tracking map (Record<VastEventType, string[]>) has a key only for the
\* event kinds extractTracking pushed a URL for.
NoTracking == [e \in {} |-> <<>>]

\* the map with the entries of t whose list is not empty
TrackingOf(t) == [e \in {k \in DOMAIN t : t[k] # <<>>} |-> t[e]]

\* tracking[eventType] || []
urlsOf(tracking, e) == IF e \in DOMAIN tracking THEN tracking[e] ELSE <<>>

\* MediaFile: url, MIME type, bitrate
Media(u, t, b) == [url |-> u, type |-> t, bitrate |-> b]

\* What a GET of a document URL can answer.  kind:
\*   FetchFail  transport failure or non-2xx response
\*   BadXml     DOMParser reports a parsererror
\*   NoRoot     no VAST element
\*   NoAd       VAST without Ad
\*   Neither    Ad with neither Wrapper nor InLine
\*   Wrapper    uri = NoUrl when VASTAdTagURI is missing
\*   InLine     linear = FALSE when no Linear creative; media may be empty
Doc(k, uri, lin, media, imps, trk) ==
  [kind |-> k, uri |-> uri, linear |-> lin, media |-> media,
   imps |-> imps, tracking |-> trk]

BareDoc(k) == Doc(k, NoUrl, FALSE, <<>>, <<>>, NoTracking)

Unknown == BareDoc("Unknown")

ErrorDocs == {BareDoc(k) : k \in {"FetchFail", "BadXml", "NoRoot", "NoAd", "Neither"}}
             \cup {BareDoc("Wrapper"),
                   Doc("InLine", NoUrl, FALSE, <<>>, <<"i9">>, NoTracking),
                   Doc("InLine", NoUrl, TRUE, <<>>, <<"i9">>, NoTracking)}

WrapperDocs == {Doc("Wrapper", u, FALSE, <<>>, <<"w">>, [Start |-> <<"ws">>]) : u \in URLs}

InLineDocs == {Doc("InLine", NoUrl, TRUE, <<Media("m1", "video/mp4", 500)>>,
                   <<"i1">>, [Start |-> <<"s1">>, Error |-> <<"e1">>])}

\* documents served in the resolver's own specification
ResolverDocs == ErrorDocs \cup WrapperDocs \cup InLineDocs

(* ------------------------------- state --------------------------------- *)
VARIABLES
  \* VastParser
  maxWrapperDepth,  \* this.maxWrapperDepth
  visitedUrls,      \* this.visitedUrls
  pstack,           \* suspended parse() frames, outermost first
  inflight,         \* document URLs whose GET has not settled
  presult,          \* settlement of the last top-level parse()
  \* the network
  docs,             \* the document each URL serves, Unknown until fetched
  \* history
  topUrl,           \* argument of the current/last top-level parse()
  fetchLog,         \* URLs requested by the current/last top-level parse()
  resolves,         \* top-level parse() calls so far
  \* TrackingManager, with its transport and the log sink it writes to
  tm,
  \* the HTMLVideoElement (the playback sink)
  video,
  \* QuartileTracker
  qt,
  \* history: onFire calls of the current tracking session, per event kind
  fires,
  \* AdContainer
  ac,
  \* history of the calls made on and by the AdContainer
  h,
  \* argument and result of the pure function under study
  calc,
  \* useVastAd
  hook

parserVars == <<maxWrapperDepth, visitedUrls, pstack, inflight, presult,
                docs, topUrl, fetchLog, resolves>>

detectorVars == <<video, qt, fires>>

containerVars == <<ac, h, hook>>

vars == <<parserVars, tm, detectorVars, containerVars, calc>>

(* ------------------------------ VastParser ----------------------------- *)
NullVast == [isNull |-> TRUE, mediaFiles |-> <<>>, impressions |-> <<>>,
             tracking |-> NoTracking, clickTracking |-> <<>>]

NoError == [code |-> 0, message |-> "", details |-> 0]

\* VastParser.createError
createError(code, message, details) ==
  [code |-> code, message |-> message, details |-> details]

DepthExceededMsg == "Maximum wrapper depth exceeded"
CircularMsg == "Circular wrapper reference detected"

\* constructor: config.maxWrapperDepth || 3
EffectiveDepth(cfg) == IF cfg = 0 THEN DefaultMaxWrapperDepth ELSE cfg

Pending == [status |-> "pending", vast |-> NullVast, error |-> NoError]
Resolved(v) == [status |-> "ok", vast |-> v, error |-> NoError]
Rejected(e) == [status |-> "err", vast |-> NullVast, error |-> e]


\* getMediaTypeScore, over the MIME types the documents use
getMediaTypeScore(type) ==
  CASE type \in {"video/mp4", "application/mp4"} -> 3
    [] type \in {"video/webm"} -> 2
    [] type \in {"video/ogg", "video/3gpp"} -> 1
    [] OTHER -> 0

\* mutant: the comparator looks at the type score only
compareMedia_typeOnly(a, b) ==
  getMediaTypeScore(b.type) - getMediaTypeScore(a.type)

\* the comparator of prioritizeMediaFiles: negative when a sorts before b
compareMedia(a, b) ==
  IF getMediaTypeScore(a.type) # getMediaTypeScore(b.type)
  THEN getMediaTypeScore(b.type) - getMediaTypeScore(a.type)
  ELSE b.bitrate - a.bitrate

\* stable insertion of m into the sorted list s (Array.prototype.sort is stable)
RECURSIVE insertMedia(_, _)
insertMedia(m, s) ==
  IF s = <<>> THEN <<m>>
  ELSE IF compareMedia(m, Head(s)) < 0 THEN <<m>> \o s
       ELSE <<Head(s)>> \o insertMedia(m, Tail(s))

\* prioritizeMediaFiles
RECURSIVE prioritizeMediaFiles(_)
prioritizeMediaFiles(mediaFiles) ==
  IF mediaFiles = <<>> THEN <<>>
  ELSE insertMedia(mediaFiles[Len(mediaFiles)],
                   prioritizeMediaFiles(SubSeq(mediaFiles, 1, Len(mediaFiles) - 1)))

\* mutant: the nested result's URLs are put before this level's
mergeVastData_nestedFirst(wrapper, nested) ==
  [nested EXCEPT
     !.mediaFiles = nested.mediaFiles,
     !.impressions = wrapper.impressions \o nested.impressions,
     !.tracking = [e \in DOMAIN nested.tracking \cup DOMAIN wrapper.tracking |->
                     urlsOf(nested.tracking, e) \o urlsOf(wrapper.tracking, e)],
     !.clickTracking = wrapper.clickTracking \o nested.clickTracking]

\* mergeVastData: { ...nested, mediaFiles, impressions, tracking,
\* clickTracking }
mergeVastData(wrapper, nested) ==
  [nested EXCEPT
     !.mediaFiles = nested.mediaFiles,
     !.impressions = wrapper.impressions \o nested.impressions,
     !.tracking = [e \in DOMAIN nested.tracking \cup DOMAIN wrapper.tracking |->
                     urlsOf(wrapper.tracking, e) \o urlsOf(nested.tracking, e)],
     !.clickTracking = wrapper.clickTracking \o nested.clickTracking]

\* mutant: parseWrapper passes no Impression URLs of its own level
wrapperData_noImpressions(impressions, tracking) ==
  [isNull |-> FALSE, mediaFiles |-> <<>>, impressions |-> <<>>,
   tracking |-> tracking, clickTracking |-> <<>>]

\* parseWrapper, lines 208-213: the first argument of mergeVastData
wrapperData(impressions, tracking) ==
  [isNull |-> FALSE, mediaFiles |-> <<>>, impressions |-> impressions,
   tracking |-> tracking, clickTracking |-> <<>>]

\* parseInline
parseInline(doc) ==
  IF ~doc.linear
  THEN Rejected(createError(GENERAL_LINEAR_ERROR, "No Linear creative found", 0))
  ELSE IF prioritizeMediaFiles(doc.media) = <<>>
  THEN Rejected(createError(MEDIA_FILE_NOT_FOUND, "No MediaFiles found", 0))
  ELSE Resolved([isNull |-> FALSE,
                 mediaFiles |-> prioritizeMediaFiles(doc.media),
                 impressions |-> doc.imps,
                 tracking |-> doc.tracking,
                 clickTracking |-> <<>>])

\* mutant: the depth limit is left out
depthLimitReached_never(depth, max) == FALSE

\* parse, line 51: the depth limit
depthLimitReached(depth, max) == depth >= max

\* mutant: the circular reference test is left out
alreadyVisited_never(url, visited) == FALSE

\* parse, line 60: the circular reference test
alreadyVisited(url, visited) == url \in visited

\* parse, lines 50-67: what a call throws before its first await
\* (NoError: it goes on to fetch)
parseEntry(url, depth, max, visited) ==
  IF depthLimitReached(depth, max)
  THEN createError(WRAPPER_LIMIT_REACHED, DepthExceededMsg, depth)
  ELSE IF alreadyVisited(url, visited)
  THEN createError(WRAPPER_LIMIT_REACHED, CircularMsg, url)
  ELSE NoError

\* fetchVast, parseXml and the Ad/Wrapper/InLine tests of parse, lines 69-101:
\* the error raised by a document that is neither a usable Wrapper nor an
\* InLine (NoError otherwise)
documentError(doc) ==
  CASE doc.kind = "FetchFail" ->
         createError(TRAFFICKING_ERROR, "Failed to fetch VAST XML", 0)
    [] doc.kind = "BadXml" ->
         createError(XML_PARSING_ERROR, "XML parsing failed", 0)
    [] doc.kind = "NoRoot" ->
         createError(VAST_SCHEMA_VALIDATION_ERROR, "Root VAST element not found", 0)
    [] doc.kind = "NoAd" ->
         createError(VAST_SCHEMA_VALIDATION_ERROR, "No Ad element found in VAST", 0)
    [] doc.kind = "Neither" ->
         createError(VAST_SCHEMA_VALIDATION_ERROR,
                     "Ad element must contain either Wrapper or InLine", 0)
    [] doc.kind = "Wrapper" /\ doc.uri = NoUrl ->
         createError(VAST_SCHEMA_VALIDATION_ERROR, "Wrapper missing VASTAdTagURI", 0)
    [] OTHER -> NoError

\* mutant: the catch block wraps every error as UNDEFINED_ERROR
catchRethrow_wraps(error) ==
  createError(UNDEFINED_ERROR, "VAST parsing failed", 0)

\* parse, lines 102-112: the catch block rethrows an error that carries a
\* code and wraps anything else as UNDEFINED_ERROR
catchRethrow(error) ==
  IF error.code # 0 THEN error
  ELSE createError(UNDEFINED_ERROR, "VAST parsing failed", 0)

\* the rejection seen by the top-level caller when error is raised under the
\* suspended frames
RECURSIVE unwindError(_, _)
unwindError(error, frames) ==
  IF frames = <<>> THEN error
  ELSE unwindError(catchRethrow(error), SubSeq(frames, 1, Len(frames) - 1))

\* the value returned to the top-level caller when the innermost call
\* returns nested: every suspended parseWrapper merges its own level in
RECURSIVE unwindValue(_, _)
unwindValue(nested, frames) ==
  IF frames = <<>> THEN nested
  ELSE unwindValue(
         mergeVastData(wrapperData(frames[Len(frames)].impressions,
                                   frames[Len(frames)].tracking),
                       nested),
         SubSeq(frames, 1, Len(frames) - 1))

Frame(url, depth) ==
  [url |-> url, depth |-> depth, impressions |-> <<>>, tracking |-> NoTracking]

\* parse(vastUrl) called from outside, up to its first await
ParseStart(url) ==
  /\ resolves' = resolves + 1
  /\ topUrl' = url
  /\ UNCHANGED <<maxWrapperDepth, docs>>
  /\ LET e == parseEntry(url, 0, maxWrapperDepth, visitedUrls) IN
     IF e # NoError
     THEN /\ presult' = Rejected(e)
          /\ fetchLog' = <<>>
          /\ UNCHANGED <<visitedUrls, pstack, inflight>>
     ELSE /\ visitedUrls' = visitedUrls \cup {url}
          /\ pstack' = <<Frame(url, 0)>>
          /\ inflight' = {url}
          /\ fetchLog' = <<url>>
          /\ presult' = Pending

\* mutant: the nested document is requested while the GET of its parent is
\* still counted as outstanding
outstandingAfterWrapper_overlap(outstanding, url, uri) == outstanding \cup {uri}

\* the GETs outstanding once parseWrapper has called parse() on the nested
\* URI: the awaited GET of url has settled, the GET of uri is the only new one
outstandingAfterWrapper(outstanding, url, uri) == (outstanding \ {url}) \cup {uri}

\* the GET of url settles with document doc: the innermost parse() resumes
\* and runs, through parseWrapper and the nested parse() call, up to the
\* next await or to the settlement of the top-level call
ParseResume(url, doc) ==
  LET n == Len(pstack)
      f == pstack[n]
      outer == SubSeq(pstack, 1, n - 1)
  IN
  /\ docs' = [docs EXCEPT ![url] = doc]
  /\ UNCHANGED <<maxWrapperDepth, topUrl, resolves>>
  /\ IF documentError(doc) # NoError
     THEN /\ presult' = Rejected(unwindError(documentError(doc), pstack))
          /\ pstack' = <<>>
          /\ inflight' = inflight \ {url}
          /\ UNCHANGED <<visitedUrls, fetchLog>>
     ELSE IF doc.kind = "InLine"
     THEN /\ presult' = IF parseInline(doc).status = "ok"
                        THEN Resolved(unwindValue(parseInline(doc).vast, outer))
                        ELSE Rejected(unwindError(parseInline(doc).error, pstack))
          /\ pstack' = <<>>
          /\ inflight' = inflight \ {url}
          /\ UNCHANGED <<visitedUrls, fetchLog>>
     ELSE \* Wrapper with a VASTAdTagURI: parseWrapper
          LET e == parseEntry(doc.uri, f.depth + 1, maxWrapperDepth, visitedUrls)
              g == [f EXCEPT !.impressions = doc.imps, !.tracking = doc.tracking]
          IN
          IF e # NoError
          THEN /\ presult' = Rejected(unwindError(e, pstack))
               /\ pstack' = <<>>
               /\ inflight' = inflight \ {url}
               /\ UNCHANGED <<visitedUrls, fetchLog>>
          ELSE /\ visitedUrls' = visitedUrls \cup {doc.uri}
               /\ pstack' = Append(outer, g) \o <<Frame(doc.uri, f.depth + 1)>>
               /\ inflight' = outstandingAfterWrapper(inflight, url, doc.uri)
               /\ fetchLog' = Append(fetchLog, doc.uri)
               /\ UNCHANGED presult

\* the network answers an outstanding GET; a URL serves the same document
\* every time it is fetched
FetchAnswers(url, doc, D) ==
  /\ url \in inflight
  /\ pstack # <<>>
  /\ pstack[Len(pstack)].url = url
  /\ IF docs[url] = Unknown THEN doc \in D ELSE doc = docs[url]

(* ------------------------- the resolver's callers --------------------- *)
ParserInit ==
  /\ \E cfg \in 0..MaxConfigDepth : maxWrapperDepth = EffectiveDepth(cfg)
  /\ visitedUrls = {}
  /\ pstack = <<>>
  /\ inflight = {}
  /\ presult = Pending
  /\ docs = [u \in URLs |-> Unknown]
  /\ topUrl = NoUrl
  /\ fetchLog = <<>>
  /\ resolves = 0

\* a caller starts a top-level resolve once the previous one has settled
ParseCall ==
  /\ pstack = <<>>
  /\ resolves < MaxResolves
  /\ \E url \in URLs : ParseStart(url)

FetchSettle ==
  \E url \in URLs, doc \in ResolverDocs :
    /\ FetchAnswers(url, doc, ResolverDocs)
    /\ ParseResume(url, doc)

(* --------------------------- TrackingManager --------------------------- *)
\* tm.io         what the manager did to the outside, in order: every
\*               TrackingLog handed to loggerCallback (op "log") and every GET
\*               handed to fetch() (op "get")
\* tm.nextLogId  stands for crypto.randomUUID(): ids are never reused
\* tm.requests   the GETs that have not settled
\* tm.batches    one entry per fireTrackers() call: the promise it returned
\* tm.batchOf    the fireTrackers() call each log id belongs to (history)
\* tm.failed     log ids whose GET failed at the transport (history)
NewTrackingManager ==
  [io |-> <<>>, nextLogId |-> 1, requests |-> {}, batches |-> <<>>,
   batchOf |-> <<>>, failed |-> {}]

TrackingLog(id, eventType, trackerUrl, status) ==
  [op |-> "log", id |-> id, eventType |-> eventType, trackerUrl |-> trackerUrl,
   status |-> status]

\* fetch(proxiedUrl, ...) of fireTracker, tagged with the log id of its attempt
Get(id, eventType, trackerUrl) ==
  [op |-> "get", id |-> id, eventType |-> eventType, trackerUrl |-> trackerUrl,
   status |-> ""]

\* mutant: one log id is generated for the manager and used by every attempt
fireTracker_sameId(t, b, eventType, trackerUrl) ==
  [t EXCEPT
     !.io = @ \o <<TrackingLog(1, eventType, trackerUrl, "pending"),
                   Get(1, eventType, trackerUrl)>>,
     !.requests = @ \cup {[id |-> 1, batch |-> b,
                           eventType |-> eventType, trackerUrl |-> trackerUrl]},
     !.batchOf = IF @ = <<>> THEN <<b>> ELSE @,
     !.nextLogId = 2]

\* fireTracker, lines 41-68: up to the await of fetch(); b is the
\* fireTrackers() call the attempt belongs to
fireTracker(t, b, eventType, trackerUrl) ==
  [t EXCEPT
     !.io = @ \o <<TrackingLog(t.nextLogId, eventType, trackerUrl, "pending"),
                   Get(t.nextLogId, eventType, trackerUrl)>>,
     !.requests = @ \cup {[id |-> t.nextLogId, batch |-> b,
                           eventType |-> eventType, trackerUrl |-> trackerUrl]},
     !.batchOf = Append(@, b),
     !.nextLogId = @ + 1]

RECURSIVE mapFireTracker(_, _, _, _)

\* mutant: the attempts are started from the last URL of the list to the first
mapFireTracker_lastFirst(t, b, eventType, trackerUrls) ==
  IF trackerUrls = <<>> THEN t
  ELSE fireTracker(mapFireTracker(t, b, eventType, Tail(trackerUrls)),
                   b, eventType, Head(trackerUrls))

\* trackerUrls.map((url) => this.fireTracker(eventType, url))
mapFireTracker(t, b, eventType, trackerUrls) ==
  IF trackerUrls = <<>> THEN t
  ELSE mapFireTracker(fireTracker(t, b, eventType, Head(trackerUrls)),
                      b, eventType, Tail(trackerUrls))

\* fireTrackers, up to its await: an empty list returns at once
fireTrackers(t, eventType, trackerUrls) ==
  IF Len(trackerUrls) = 0
  THEN [t EXCEPT !.batches = Append(@, [eventType |-> eventType, urls |-> trackerUrls,
                                        settled |-> 0, status |-> "fulfilled"])]
  ELSE mapFireTracker(
         [t EXCEPT !.batches = Append(@, [eventType |-> eventType, urls |-> trackerUrls,
                                          settled |-> 0, status |-> "pending"])],
         Len(t.batches) + 1, eventType, trackerUrls)

\* fireImpressions
fireImpressions(t, impressionUrls) == fireTrackers(t, "Impression", impressionUrls)

\* fireTracker, lines 70-96: the status of the log emitted when fetch() settles
terminalStatus(ok) == IF ok THEN "success" ELSE "error"

\* mutant: the catch block rethrows after logging
fireTrackerOutcome_rethrow(ok) == IF ok THEN "fulfilled" ELSE "rejected"

\* fireTracker, lines 58-96: how the promise of fireTracker settles; the
\* try/catch turns a failed fetch() into a log
fireTrackerOutcome(ok) == "fulfilled"

\* mutant: the join completes with the first attempt that settles
promiseAll_race(batch, outcome) ==
  IF batch.status # "pending" THEN [batch EXCEPT !.settled = @ + 1]
  ELSE [batch EXCEPT !.settled = @ + 1,
                     !.status = IF outcome = "rejected" THEN "rejected" ELSE "fulfilled"]

\* Promise.all over the attempts of one batch, when one of them settles
promiseAll(batch, outcome) ==
  IF batch.status # "pending" THEN [batch EXCEPT !.settled = @ + 1]
  ELSE IF outcome = "rejected"
  THEN [batch EXCEPT !.settled = @ + 1, !.status = "rejected"]
  ELSE IF batch.settled + 1 = Len(batch.urls)
  THEN [batch EXCEPT !.settled = @ + 1, !.status = "fulfilled"]
  ELSE [batch EXCEPT !.settled = @ + 1]

\* the GET of request r settles: fireTracker resumes and emits the terminal
\* log, then the batch's Promise.all sees the attempt settle
beaconSettles(t, r, ok) ==
  [t EXCEPT
     !.io = Append(@, TrackingLog(r.id, r.eventType, r.trackerUrl, terminalStatus(ok))),
     !.requests = @ \ {r},
     !.failed = IF ok THEN @ ELSE @ \cup {r.id},
     !.batches[r.batch] = promiseAll(@, fireTrackerOutcome(ok))]

(* ------------------------ the playback sink ---------------------------- *)
\* Positions and durations are counted in ticks of half a second, so that the
\* default tolerance of 0.5 s is one tick.  duration 0 stands for a duration
\* that is not known yet (0 or NaN).
NoSrc == ""

NewVideo ==
  [src |-> NoSrc, paused |-> TRUE, muted |-> FALSE, currentTime |-> 0,
   duration |-> 0, readyState |-> 0]

(* --------------------------- QuartileTracker --------------------------- *)
DefaultTolerance == 1

\* mutant: Midpoint is listed before FirstQuartile
Quartiles_unordered ==
  <<[event |-> "Start", percent4 |-> 0],
    [event |-> "Midpoint", percent4 |-> 2],
    [event |-> "FirstQuartile", percent4 |-> 1],
    [event |-> "ThirdQuartile", percent4 |-> 3],
    [event |-> "Complete", percent4 |-> 4]>>

\* this.quartiles: event and percent (in quarters), first to last
Quartiles ==
  <<[event |-> "Start", percent4 |-> 0],
    [event |-> "FirstQuartile", percent4 |-> 1],
    [event |-> "Midpoint", percent4 |-> 2],
    [event |-> "ThirdQuartile", percent4 |-> 3],
    [event |-> "Complete", percent4 |-> 4]>>

Milestones == {Quartiles[i].event : i \in 1..Len(Quartiles)}

\* constructor: config.tolerance || 0.5
EffectiveTolerance(cfg) == IF cfg = 0 THEN DefaultTolerance ELSE cfg

\* qt.attached     the five listeners are registered on the video element
\* qt.fired        the fired flag of each entry of this.quartiles
\* qt.calls        the onFire calls made by the handler that ran last
NewQuartileTracker(trackingUrls, tolerance) ==
  [attached |-> FALSE,
   fired |-> [i \in 1..Len(Quartiles) |-> FALSE],
   wasPlaying |-> FALSE, wasMuted |-> FALSE,
   trackingUrls |-> trackingUrls, tolerance |-> tolerance,
   calls |-> <<>>]

\* QuartileTracker.init
trackerInit(q, v) ==
  [q EXCEPT !.attached = TRUE, !.wasPlaying = ~v.paused, !.wasMuted = v.muted,
            !.calls = <<>>]

\* fireEvent: onFire is called only with a non-empty list
fireEvent(q, eventType) ==
  IF Len(urlsOf(q.trackingUrls, eventType)) > 0
  THEN [q EXCEPT !.calls = Append(@, <<eventType, urlsOf(q.trackingUrls, eventType)>>)]
  ELSE q

\* fireQuartile
fireQuartile(q, i) == fireEvent([q EXCEPT !.fired[i] = TRUE], Quartiles[i].event)

\* Math.abs(currentTime - duration * percent) <= tolerance
isWithinTolerance(currentTime, duration, percent4, tolerance) ==
  LET diff4 == 4 * currentTime - duration * percent4 IN
  (IF diff4 < 0 THEN -diff4 ELSE diff4) <= 4 * tolerance

\* mutant: only the tolerance window counts, a passed threshold does not
hasPassedThreshold_never(currentTime, duration, percent4) == FALSE

\* currentTime / duration >= percent
hasPassedThreshold(currentTime, duration, percent4) ==
  4 * currentTime >= duration * percent4

\* mutant: the fired flag is not consulted
quartileDue_refires(q, i, v) ==
  \/ isWithinTolerance(v.currentTime, v.duration, Quartiles[i].percent4, q.tolerance)
  \/ hasPassedThreshold(v.currentTime, v.duration, Quartiles[i].percent4)

\* handleTimeUpdate, lines 104-114: the test made for one quartile
quartileDue(q, i, v) ==
  /\ ~q.fired[i]
  /\ \/ isWithinTolerance(v.currentTime, v.duration, Quartiles[i].percent4, q.tolerance)
     \/ hasPassedThreshold(v.currentTime, v.duration, Quartiles[i].percent4)

\* this.quartiles.forEach of handleTimeUpdate, from entry i on
RECURSIVE forEachQuartile(_, _, _)
forEachQuartile(q, i, v) ==
  IF i > Len(Quartiles) THEN q
  ELSE forEachQuartile(IF quartileDue(q, i, v) THEN fireQuartile(q, i) ELSE q, i + 1, v)

\* mutant: the thresholds are tested although the duration is not known
handleTimeUpdate_noGuard(q, v) ==
  forEachQuartile([q EXCEPT !.calls = <<>>], 1, v)

\* handleTimeUpdate
handleTimeUpdate(q, v) ==
  IF v.duration = 0 THEN [q EXCEPT !.calls = <<>>]
  ELSE forEachQuartile([q EXCEPT !.calls = <<>>], 1, v)

\* mutant: the end-of-media signal fires Complete whatever its flag says
handleEnded_always(q, v) ==
  fireQuartile([q EXCEPT !.calls = <<>>], Len(Quartiles))

\* handleEnded
handleEnded(q, v) ==
  IF ~q.fired[Len(Quartiles)]
  THEN fireQuartile([q EXCEPT !.calls = <<>>], Len(Quartiles))
  ELSE [q EXCEPT !.calls = <<>>]

\* handlePause
handlePause(q, v) ==
  IF q.wasPlaying
  THEN [fireEvent([q EXCEPT !.calls = <<>>], "Pause") EXCEPT !.wasPlaying = FALSE]
  ELSE [q EXCEPT !.calls = <<>>]

\* handlePlay
handlePlay(q, v) ==
  [(IF ~q.wasPlaying /\ v.currentTime > 0
    THEN fireEvent([q EXCEPT !.calls = <<>>], "Resume")
    ELSE [q EXCEPT !.calls = <<>>])
   EXCEPT !.wasPlaying = TRUE]

\* mutant: every volume notification is taken for a change of the muted flag
handleVolumeChange_everyChange(q, v) ==
  [fireEvent([q EXCEPT !.calls = <<>>], IF v.muted THEN "Mute" ELSE "Unmute")
   EXCEPT !.wasMuted = v.muted]

\* handleVolumeChange
handleVolumeChange(q, v) ==
  IF v.muted # q.wasMuted
  THEN [fireEvent([q EXCEPT !.calls = <<>>], IF v.muted THEN "Mute" ELSE "Unmute")
        EXCEPT !.wasMuted = v.muted]
  ELSE [q EXCEPT !.calls = <<>>]

\* mutant: destroy resets the flags and leaves the listeners registered
trackerDestroy_keepsListeners(q) ==
  [q EXCEPT !.fired = [i \in 1..Len(Quartiles) |-> FALSE],
            !.calls = <<>>]

\* QuartileTracker.destroy
trackerDestroy(q) ==
  [q EXCEPT !.attached = FALSE,
            !.fired = [i \in 1..Len(Quartiles) |-> FALSE],
            !.calls = <<>>]

\* the listener of one event kind, as registered by init
Handler(kind, q, v) ==
  CASE kind = "timeupdate" -> handleTimeUpdate(q, v)
    [] kind = "ended" -> handleEnded(q, v)
    [] kind = "pause" -> handlePause(q, v)
    [] kind = "play" -> handlePlay(q, v)
    [] kind = "volumechange" -> handleVolumeChange(q, v)

\* the element dispatches an event: the listener runs if it is registered
Dispatch(kind, q, v) == IF q.attached THEN Handler(kind, q, v) ELSE [q EXCEPT !.calls = <<>>]

\* the onFire calls of one handler run, added to the per-event counts
RECURSIVE countCalls(_, _)
countCalls(f, calls) ==
  IF calls = <<>> THEN f
  ELSE countCalls([f EXCEPT ![Head(calls)[1]] = @ + 1], Tail(calls))

NoFires == [e \in Events |-> 0]

(* ------------------------------ AdContainer ---------------------------- *)
\* this.state as the constructor and destroy() write it
InitialState ==
  [isReady |-> FALSE, hasAd |-> FALSE, isPlaying |-> FALSE, hasError |-> FALSE,
   errorMessage |-> "", parsedVast |-> NullVast]

\* ac.quartileTracker  this.quartileTracker is not null
\* ac.pc               where the init() call that got past parse() stands:
\*                     "idle" (none in flight), "parse", "video" (in
\*                     waitForVideoReady), "imps" (awaiting fireImpressions)
\* ac.wait             what waitForVideoReady has installed and not removed:
\*                     its two sink listeners and its timer
\* ac.impBatch         the fireTrackers() call init() awaits at "imps"
\* ac.playPending      promises of videoElement.play() that have not settled
NewAdContainer(vastUrl, autoPlay) ==
  [vastUrl |-> vastUrl, autoPlay |-> autoPlay,
   state |-> InitialState, parsedVast |-> NullVast, quartileTracker |-> FALSE,
   pc |-> "idle", wait |-> {}, impBatch |-> 0, playPending |-> 0]

\* h.calls       init(), play() and destroy() calls made from outside
\* h.destroyed   destroy() was called and init() was not called since
\* h.destroyRun  destroy() calls in a row up to now (counted up to 2)
NewHistory ==
  [calls |-> 0, destroyed |-> FALSE, destroyRun |-> 0]

\* The container's methods are functions of the objects they touch:
\* w.ac, w.video, w.qt, w.tm and the history w.h.
World == [ac |-> ac, video |-> video, qt |-> qt, tm |-> tm, h |-> h]

\* mutant: the error is recorded and no Error beacon is sent
handleError_silent(w, errorMessage) ==
  [w EXCEPT !.ac.state.hasError = TRUE,
            !.ac.state.errorMessage = errorMessage]

\* handleError
handleError(w, errorMessage) ==
  LET w1 == [w EXCEPT !.ac.state.hasError = TRUE,
                      !.ac.state.errorMessage = errorMessage]
  IN IF ~w.ac.parsedVast.isNull /\ "Error" \in DOMAIN w.ac.parsedVast.tracking
     THEN [w1 EXCEPT !.tm = fireTrackers(@, "Error", w.ac.parsedVast.tracking["Error"])]
     ELSE w1

\* mutant: play() does not test isReady
playGuard_always(state) == TRUE

\* play, line 155
playGuard(state) == state.isReady

\* play, up to the promise of videoElement.play()
play(w) ==
  IF ~playGuard(w.ac.state) THEN w
  ELSE [w EXCEPT !.video.paused = FALSE,
                 !.ac.playPending = @ + 1]

\* play, lines 164-171: the promise of videoElement.play() settles
playSettles(w, ok) ==
  IF ok
  THEN [w EXCEPT !.ac.playPending = @ - 1, !.ac.state.isPlaying = TRUE]
  ELSE handleError([w EXCEPT !.ac.playPending = @ - 1], "play() rejected")

\* an init() call rejects: the catch block, lines 145-148
initRejects(w, errorMessage) ==
  handleError(w, errorMessage)

\* the init() call that got past parse() rejects
inFlightRejects(w, errorMessage) ==
  [initRejects(w, errorMessage) EXCEPT !.ac.pc = "idle"]

\* init, lines 141-144, after the await of fireImpressions
initAfterImpressions(w) ==
  [(IF w.ac.autoPlay THEN play(w) ELSE w) EXCEPT
     !.ac.pc = "idle"]

\* mutant: destroy() clears the flags one by one and leaves hasAd out
destroy_keepsAd(w) ==
  [w EXCEPT
     !.qt = IF w.ac.quartileTracker THEN trackerDestroy(@) ELSE @,
     !.ac.quartileTracker = FALSE,
     !.video = [@ EXCEPT !.paused = TRUE, !.src = NoSrc, !.currentTime = 0,
                         !.duration = 0, !.readyState = 0],
     !.ac.state = [@ EXCEPT !.isReady = FALSE, !.isPlaying = FALSE, !.hasError = FALSE,
                            !.errorMessage = "", !.parsedVast = NullVast],
     !.ac.parsedVast = NullVast]

\* mutant: destroy() also drops the beacon requests that have not settled
destroy_cancelsBeacons(w) ==
  [w EXCEPT
     !.qt = IF w.ac.quartileTracker THEN trackerDestroy(@) ELSE @,
     !.ac.quartileTracker = FALSE,
     !.video = [@ EXCEPT !.paused = TRUE, !.src = NoSrc, !.currentTime = 0,
                         !.duration = 0, !.readyState = 0],
     !.ac.state = InitialState,
     !.ac.parsedVast = NullVast,
     !.tm.requests = {}]

\* destroy
destroy(w) ==
  [w EXCEPT
     !.qt = IF w.ac.quartileTracker THEN trackerDestroy(@) ELSE @,
     !.ac.quartileTracker = FALSE,
     !.video = [@ EXCEPT !.paused = TRUE, !.src = NoSrc, !.currentTime = 0,
                         !.duration = 0, !.readyState = 0],
     !.ac.state = InitialState,
     !.ac.parsedVast = NullVast]

\* mutant: init() does not await fireImpressions before the auto-play
initAfterVideoReady_noAwait(w) ==
  IF w.ac.parsedVast.isNull
  THEN inFlightRejects(w, "TypeError")
  ELSE
  LET w1 == [w EXCEPT
               !.qt = trackerInit(NewQuartileTracker(w.ac.parsedVast.tracking,
                                                     DefaultTolerance), w.video),
               !.ac.quartileTracker = TRUE,
               !.ac.state = [isReady |-> TRUE, hasAd |-> TRUE, isPlaying |-> FALSE,
                             hasError |-> FALSE, errorMessage |-> "",
                             parsedVast |-> w.ac.parsedVast],
               !.tm = fireImpressions(@, w.ac.parsedVast.impressions)]
  IN initAfterImpressions(w1)

\* init, lines 116-139: after waitForVideoReady resolved, up to the await of
\* fireImpressions, and past it when there is nothing to wait for
initAfterVideoReady(w) ==
  IF w.ac.parsedVast.isNull
  THEN \* this.parsedVast.tracking of a null parsedVast throws a TypeError
       inFlightRejects(w, "TypeError")
  ELSE
  LET w1 == [w EXCEPT
               !.qt = trackerInit(NewQuartileTracker(w.ac.parsedVast.tracking,
                                                     DefaultTolerance), w.video),
               !.ac.quartileTracker = TRUE,
               !.ac.state = [isReady |-> TRUE, hasAd |-> TRUE, isPlaying |-> FALSE,
                             hasError |-> FALSE, errorMessage |-> "",
                             parsedVast |-> w.ac.parsedVast],
               !.tm = fireImpressions(@, w.ac.parsedVast.impressions)]
      b == Len(w1.tm.batches)
  IN IF w1.tm.batches[b].status = "fulfilled" THEN initAfterImpressions(w1)
     ELSE IF w1.tm.batches[b].status = "rejected" THEN inFlightRejects(w1, "beacon failed")
     ELSE [w1 EXCEPT !.ac.pc = "imps", !.ac.impBatch = b]

\* waitForVideoReady, lines 233-260: the two listeners it adds to the sink
\* and the timer it arms
WaitSignals == {"loadedmetadata", "error", "timeout"}

\* mutant: cleanup() removes the two listeners and leaves the timer armed
cleanup_keepsTimeout(w) == [w EXCEPT !.ac.wait = @ \cap {"timeout"}]

\* waitForVideoReady, cleanup, lines 254-258
cleanup(w) == [w EXCEPT !.ac.wait = {}]

\* waitForVideoReady, lines 233-252: onLoadedMetadata, onError or the timer's
\* callback runs, if it is still installed; resolve() and reject() act on
\* the promise only while init() awaits it
waitSignal(w, signal) ==
  IF signal \notin w.ac.wait THEN w
  ELSE LET w1 == cleanup(w) IN
       IF w.ac.pc # "video" THEN w1
       ELSE IF signal = "loadedmetadata" THEN initAfterVideoReady(w1)
       ELSE IF signal = "error" THEN inFlightRejects(w1, "Video loading failed")
       ELSE inFlightRejects(w1, "Video loading timeout")

\* mutant: a failed parse() fires the Impression URLs init() was given by
\* the outermost wrapper before it rejects
initAfterParse_partial(w, r, readyState) ==
  IF r.status = "err"
  THEN inFlightRejects([w EXCEPT !.tm = fireImpressions(@, <<"w">>)], r.error.message)
  ELSE
  LET w1 == [w EXCEPT !.ac.parsedVast = r.vast] IN
  IF Len(r.vast.mediaFiles) = 0 THEN inFlightRejects(w1, "No MediaFiles found in VAST")
  ELSE
  LET w2 == [w1 EXCEPT
               !.video = [@ EXCEPT !.src = r.vast.mediaFiles[1].url, !.paused = TRUE,
                                   !.currentTime = 0, !.duration = 0,
                                   !.readyState = readyState]]
  IN IF readyState >= 2 THEN initAfterVideoReady(w2)
     ELSE [w2 EXCEPT !.ac.pc = "video", !.ac.wait = WaitSignals]

\* mutant: the Impression URLs are fired as soon as the media URL is assigned,
\* before the wait for the sink
initAfterParse_early(w, r, readyState) ==
  IF r.status = "err" THEN inFlightRejects(w, r.error.message)
  ELSE
  LET w1 == [w EXCEPT !.ac.parsedVast = r.vast] IN
  IF Len(r.vast.mediaFiles) = 0 THEN inFlightRejects(w1, "No MediaFiles found in VAST")
  ELSE
  LET w2 == [w1 EXCEPT
               !.video = [@ EXCEPT !.src = r.vast.mediaFiles[1].url, !.paused = TRUE,
                                   !.currentTime = 0, !.duration = 0,
                                   !.readyState = readyState]]
  IN IF readyState >= 2 THEN initAfterVideoReady(w2)
     ELSE [w2 EXCEPT !.ac.pc = "video", !.ac.wait = WaitSignals,
                     !.tm = fireImpressions(@, r.vast.impressions)]

\* init, lines 98-114: after parse() settled as r, up to waitForVideoReady;
\* readyState is what the element reports once the new src is assigned
initAfterParse(w, r, readyState) ==
  IF r.status = "err" THEN inFlightRejects(w, r.error.message)
  ELSE
  LET w1 == [w EXCEPT !.ac.parsedVast = r.vast] IN
  IF Len(r.vast.mediaFiles) = 0 THEN inFlightRejects(w1, "No MediaFiles found in VAST")
  ELSE
  LET w2 == [w1 EXCEPT
               !.video = [@ EXCEPT !.src = r.vast.mediaFiles[1].url, !.paused = TRUE,
                                   !.currentTime = 0, !.duration = 0,
                                   !.readyState = readyState]]
  IN IF readyState >= 2 THEN initAfterVideoReady(w2)
     ELSE [w2 EXCEPT !.ac.pc = "video", !.ac.wait = WaitSignals]

\* a beacon GET settles; when it completes the batch init() awaits, init()
\* resumes
containerBeaconSettles(w, r, ok) ==
  LET w1 == [w EXCEPT !.tm = beaconSettles(@, r, ok)] IN
  IF w.ac.pc = "imps" /\ r.batch = w.ac.impBatch
     /\ w.tm.batches[r.batch].status = "pending"
  THEN IF w1.tm.batches[r.batch].status = "fulfilled" THEN initAfterImpressions(w1)
       ELSE IF w1.tm.batches[r.batch].status = "rejected"
            THEN inFlightRejects(w1, "beacon failed")
            ELSE w1
  ELSE w1

\* the step of the specification that leaves the objects as in w
Becomes(w) ==
  /\ w.tm.nextLogId <= MaxAttempts + 1
  /\ ac' = w.ac
  /\ video' = w.video
  /\ qt' = w.qt
  /\ tm' = w.tm
  /\ h' = w.h
  /\ UNCHANGED <<fires, calc, hook>>

(* ------------------------------ useVastAd ------------------------------ *)
\* adContainerRef.current is null
NoContainer == 0

\* hook.videoRef        videoRef.current is not null
\* hook.adContainerRef  adContainerRef.current: the index in hook.containers
\*                      of the AdContainer it points to, or NoContainer
\* hook.containers      the AdContainers loadAd has created, oldest first
\* hook.error           the error state of the hook
NewHook ==
  [videoRef |-> TRUE, adContainerRef |-> NoContainer, containers |-> <<>>,
   error |-> ""]

\* An AdContainer of the hook, all of them on the one video element:
\*   pc               where its init() stands: "loading" (in parse() or in
\*                    waitForVideoReady), "imps" (awaiting fireImpressions),
\*                    "idle" (settled)
\*   quartileTracker  its QuartileTracker listens to the video element
\*   hasAd            this.state.hasAd
\*   destroyed        destroy() was called on it
\* new AdContainer(...) followed by init() up to its first await
NewHookContainer ==
  [pc |-> "loading", quartileTracker |-> FALSE, hasAd |-> FALSE, destroyed |-> FALSE]

\* AdContainer.destroy on a container of the hook
hookDestroy(c) ==
  [c EXCEPT !.quartileTracker = FALSE, !.hasAd = FALSE, !.destroyed = TRUE]

\* if (adContainerRef.current) { adContainerRef.current.destroy();
\* adContainerRef.current = null; }
destroyRef(k) ==
  IF k.adContainerRef = NoContainer THEN k
  ELSE [k EXCEPT !.containers[k.adContainerRef] = hookDestroy(@),
                 !.adContainerRef = NoContainer]

\* loadAd, lines 102-141: up to the await of adContainer.init()
loadAd(k) ==
  IF ~k.videoRef THEN [k EXCEPT !.error = "Video element not ready"]
  ELSE [destroyRef(k) EXCEPT !.error = "",
                             !.containers = Append(@, NewHookContainer)]

\* AdContainer.init of container i, lines 116-136: waitForVideoReady
\* resolved, the QuartileTracker is started and the state is Ready
hookInitReady(k, i) ==
  [k EXCEPT !.containers[i] = [@ EXCEPT !.pc = "imps", !.quartileTracker = TRUE,
                                        !.hasAd = TRUE]]

\* loadAd, the catch block, lines 152-171
loadAdCatch(k, errorMsg) ==
  [destroyRef(k) EXCEPT !.error = errorMsg]

\* loadAd, lines 141-149: init() of container i resolved
loadAdInitResolved(k, i) ==
  LET k1 == [k EXCEPT !.containers[i].pc = "idle"] IN
  IF ~k1.containers[i].hasAd THEN loadAdCatch(k1, "No ad found in VAST response")
  ELSE [k1 EXCEPT !.adContainerRef = i]

\* loadAd: init() of container i rejected; "init failed" stands for the
\* message of whatever init() threw
loadAdInitRejected(k, i) ==
  loadAdCatch([k EXCEPT !.containers[i].pc = "idle"], "init failed")

\* the cleanup of useEffect, lines 192-200: the component unmounts
unmount(k) ==
  [destroyRef(k) EXCEPT !.videoRef = FALSE]

IdleHook == hook = NewHook

(* --------------------- specification of the resolver ------------------- *)
IdleDetector ==
  /\ video = NewVideo
  /\ qt = NewQuartileTracker(NoTracking, DefaultTolerance)
  /\ fires = NoFires

IdleContainer ==
  /\ ac = NewAdContainer(NoUrl, TRUE)
  /\ h = NewHistory

\* no pure function is under study
NoCalc == [fn |-> "none"]
IdleCalc == calc = NoCalc

ResolverInit ==
  ParserInit /\ tm = NewTrackingManager /\ IdleDetector /\ IdleContainer /\ IdleCalc /\ IdleHook

ResolverNext == (ParseCall \/ FetchSettle) /\ UNCHANGED <<tm, detectorVars, containerVars, calc>>

SpecResolver == ResolverInit /\ [][ResolverNext]_vars

\* every outstanding GET settles: fetch() resolves or rejects
FetchesSettle == WF_vars(FetchSettle /\ UNCHANGED <<tm, detectorVars, containerVars, calc>>)

SpecResolverFair == SpecResolver /\ FetchesSettle

(* -------------------- specification of the dispatcher ------------------ *)


DispatcherEvents == {"Start", "Impression"}

\* the URL lists of at most n trackers: one list of each length, made of two
\* URLs in turn (so that a list of three names one URL twice)
UrlLists(n) ==
  {[i \in 1..k |-> IF i % 2 = 1 THEN "t1" ELSE "t2"] : k \in 0..n}

IdleParser ==
  /\ maxWrapperDepth = DefaultMaxWrapperDepth
  /\ visitedUrls = {}
  /\ pstack = <<>>
  /\ inflight = {}
  /\ presult = Pending
  /\ docs = [u \in URLs |-> Unknown]
  /\ topUrl = NoUrl
  /\ fetchLog = <<>>
  /\ resolves = 0

DispatcherInit ==
  /\ tm = NewTrackingManager
  /\ IdleDetector
  /\ IdleContainer
  /\ IdleParser
  /\ IdleCalc
  /\ IdleHook

\* a caller fires a batch
FireTrackersCall ==
  /\ Len(tm.batches) < MaxBatches
  /\ \E eventType \in DispatcherEvents, trackerUrls \in UrlLists(MaxBatchLen) :
       /\ tm.nextLogId - 1 + Len(trackerUrls) <= MaxAttempts
       /\ tm' = fireTrackers(tm, eventType, trackerUrls)
  /\ UNCHANGED <<parserVars, detectorVars, containerVars, calc>>

\* the transport settles one outstanding GET, with a response or a failure
BeaconSettle ==
  /\ \E r \in tm.requests, ok \in BOOLEAN : tm' = beaconSettles(tm, r, ok)
  /\ UNCHANGED <<parserVars, detectorVars, containerVars, calc>>

DispatcherNext == FireTrackersCall \/ BeaconSettle

SpecDispatcher == DispatcherInit /\ [][DispatcherNext]_vars
(* ------------------------- claims on the resolver ---------------------- *)
Range(s) == {s[i] : i \in 1..Len(s)}

\* a top-level parse() has settled
ResolveDone == resolves > 0 /\ pstack = <<>>

IsValidInLine(doc) == doc.kind = "InLine" /\ doc.linear /\ doc.media # <<>>

\* The shape of the wrapper chain that starts at url, read off the served
\* documents: follow the nested URIs while they lead to new URLs
\*   cycle    url at depth d was met before on the chain
\*   deep     d = limit wrappers with pairwise distinct URLs were followed
\*   unknown  the document at depth d was never fetched
\*   final    the document at depth d has no nested URI to follow
RECURSIVE chainWalk(_, _, _, _)
chainWalk(url, d, seen, limit) ==
  IF url \in seen THEN [end |-> "cycle", d |-> d, last |-> url]
  ELSE IF d = limit THEN [end |-> "deep", d |-> d, last |-> url]
  ELSE IF docs[url] = Unknown THEN [end |-> "unknown", d |-> d, last |-> url]
  ELSE IF docs[url].kind = "Wrapper" /\ docs[url].uri # NoUrl
  THEN chainWalk(docs[url].uri, d + 1, seen \cup {url}, limit)
  ELSE [end |-> "final", d |-> d, last |-> url]

IsDepthExceeded(r) ==
  /\ r.status = "err"
  /\ r.error.code = WRAPPER_LIMIT_REACHED
  /\ r.error.message = DepthExceededMsg

IsCircular(r) ==
  /\ r.status = "err"
  /\ r.error.code = WRAPPER_LIMIT_REACHED
  /\ r.error.message = CircularMsg

\* C1: for a chain of d wrappers with pairwise distinct URLs and a final
\* document, a settled top-level resolve succeeded iff d < maxWrapperDepth and
\* the final document is a valid InLine with a MediaFile; with
\* d >= maxWrapperDepth it failed with the depth-exceeded error 302 and never
\* requested the document at depth maxWrapperDepth.
C1_ResolveIffDepthAndInLine ==
  ResolveDone =>
    LET w == chainWalk(topUrl, 0, {}, maxWrapperDepth) IN
    CASE w.end = "deep" -> IsDepthExceeded(presult) /\ w.last \notin Range(fetchLog)
      [] w.end = "final" -> (presult.status = "ok") <=> IsValidInLine(docs[w.last])
      [] w.end = "unknown" -> FALSE
      [] OTHER -> TRUE

\* C2 (as claimed): a chain that revisits a URL fails with the
\* circular-reference failure at whatever depth the revisit happens, also at
\* depth = maxWrapperDepth.
C2_CircularAtEveryDepth ==
  ResolveDone =>
    LET w == chainWalk(topUrl, 0, {}, NumUrls + 1) IN
    w.end = "cycle" => IsCircular(presult)

\* C2 (amended): a chain that revisits a URL at a depth below maxWrapperDepth
\* fails with the circular-reference failure.
C2_CircularBelowDepthLimit ==
  ResolveDone =>
    LET w == chainWalk(topUrl, 0, {}, NumUrls + 1) IN
    (w.end = "cycle" /\ w.d < maxWrapperDepth) => IsCircular(presult)

\* a first resolve walked a chain of two wrappers back to its own start and
\* failed as circular with depth budget left
C2_Witness ==
  /\ ResolveDone
  /\ resolves = 1
  /\ Len(fetchLog) = 2
  /\ chainWalk(topUrl, 0, {}, NumUrls + 1).end = "cycle"
  /\ chainWalk(topUrl, 0, {}, NumUrls + 1).d = 2
  /\ maxWrapperDepth > 2
  /\ IsCircular(presult)

\* C3: a resolve fails as circular only on a URL that this same top-level
\* resolve requested before; URLs visited by an earlier resolve of the same
\* instance never cause it.
C3_VisitedScopedToResolve ==
  (ResolveDone /\ IsCircular(presult)) => presult.error.details \in Range(fetchLog)

\* the code of the failure raised for a document without an Ad element
NoAdCode == documentError(BareDoc("NoAd")).code

\* the document whose handling settled the last resolve
LastDocument == docs[fetchLog[Len(fetchLog)]]

\* C19: a resolve that fails with the code of the "no ad" failure has failed
\* on a document without an Ad element: no other failure class (an Ad with
\* neither Wrapper nor InLine, a Wrapper without nested URI, a missing VAST
\* root) carries that code.
C19_NoAdDistinctByCode ==
  (/\ ResolveDone
   /\ presult.status = "err"
   /\ fetchLog # <<>>
   /\ presult.error.code = NoAdCode) => LastDocument.kind = "NoAd"
\* the error raised by the innermost parse() call of the last resolve, where
\* it was raised: at its entry, or on the document it fetched
RaisedError ==
  IF fetchLog = <<>> THEN parseEntry(topUrl, 0, maxWrapperDepth, visitedUrls)
  ELSE IF documentError(LastDocument) # NoError THEN documentError(LastDocument)
  ELSE IF LastDocument.kind = "InLine" THEN parseInline(LastDocument).error
  ELSE parseEntry(LastDocument.uri, Len(fetchLog), maxWrapperDepth, visitedUrls)

\* the code the failure classes carry
ClassCode ==
  IF fetchLog = <<>> THEN 302
  ELSE CASE LastDocument.kind = "FetchFail" -> 200
         [] LastDocument.kind = "BadXml" -> 100
         [] LastDocument.kind \in {"NoRoot", "NoAd", "Neither"} -> 101
         [] LastDocument.kind = "Wrapper" /\ LastDocument.uri = NoUrl -> 101
         [] LastDocument.kind = "InLine" /\ ~LastDocument.linear -> 400
         [] LastDocument.kind = "InLine" /\ LastDocument.media = <<>> -> 403
         [] OTHER -> 302

\* C22: a failed resolve rejects with the error its innermost call raised,
\* whatever the depth: the code of the failure class (200 fetch, 100 XML,
\* 101 schema, 400 no Linear, 403 no MediaFile, 302 depth or circular) and
\* the message unchanged, never rewrapped as 900.
C22_ErrorKeptThroughWrappers ==
  (ResolveDone /\ presult.status = "err") =>
    /\ presult.error = RaisedError
    /\ presult.error.code = ClassCode
    /\ presult.error.code # 900
    /\ presult.error.message # ""

\* a resolve has failed on a malformed document two wrapper levels down
C22_Witness ==
  /\ ResolveDone
  /\ presult.status = "err"
  /\ Len(fetchLog) = 3
  /\ LastDocument.kind = "BadXml"
  /\ presult.error.code = XML_PARSING_ERROR

\* C25: at every moment of a resolve at most one document GET is
\* outstanding, that of the URL requested last; every URL requested before
\* it has been answered with a Wrapper whose nested URI is the URL requested
\* next, at a depth one greater.
C25_SequentialDepthFirst ==
  /\ Cardinality(inflight) <= 1
  /\ inflight # {} => (fetchLog # <<>> /\ inflight = {fetchLog[Len(fetchLog)]})
  /\ \A i \in 1..(Len(fetchLog) - 1) :
       /\ docs[fetchLog[i]].kind = "Wrapper"
       /\ docs[fetchLog[i]].uri = fetchLog[i + 1]
  /\ \A i \in 1..Len(pstack) :
       pstack[i].depth = i - 1 /\ pstack[i].url = fetchLog[i]

\* the GET of the document at depth 2 is outstanding, those of its two
\* enclosing wrappers answered
C25_Witness ==
  /\ Len(pstack) = 3
  /\ inflight = {fetchLog[3]}
  /\ docs[fetchLog[3]] = Unknown
  /\ docs[fetchLog[1]].kind = "Wrapper"
  /\ docs[fetchLog[2]].kind = "Wrapper"

\* C28: provided every GET settles, every top-level resolve settles, on
\* every wrapper graph; it requests at most maxWrapperDepth documents and no
\* URL twice.
C28_ResolveTerminatesBounded ==
  /\ [](/\ Len(fetchLog) <= maxWrapperDepth
        /\ \A i, j \in 1..Len(fetchLog) : fetchLog[i] = fetchLog[j] => i = j)
  /\ (pstack # <<>>) ~> (pstack = <<>> /\ presult.status # "pending")

\* a resolve on a chain of wrappers has requested maxWrapperDepth documents
\* and then failed on the depth limit
C28_Witness ==
  /\ ResolveDone
  /\ maxWrapperDepth >= 2
  /\ Len(fetchLog) = maxWrapperDepth
  /\ presult.status = "err"
  /\ presult.error.message = DepthExceededMsg

(* ------------------------ claims on the dispatcher --------------------- *)
\* positions of tm.io
LogsAt(id, statuses) ==
  {i \in 1..Len(tm.io) : tm.io[i].op = "log" /\ tm.io[i].id = id
                         /\ tm.io[i].status \in statuses}
GetsAt(id) == {i \in 1..Len(tm.io) : tm.io[i].op = "get" /\ tm.io[i].id = id}

Terminal == {"success", "error"}

LogIds == {tm.io[i].id : i \in {j \in 1..Len(tm.io) : tm.io[j].op = "log"}}

\* the log ids of the attempts of the b-th fireTrackers() call
IdsOfBatch(b) == {id \in 1..Len(tm.batchOf) : tm.batchOf[id] = b}

Outstanding(id) == \E r \in tm.requests : r.id = id

\* C5: a batch of N URLs of which k GETs fail ends with N distinct log ids,
\* N-k of them with terminal status success and k with terminal status error,
\* and its call completes normally for every k; a batch with an empty URL
\* list emits nothing and issues no request.
C5_BatchIsolatesFailures ==
  \A b \in 1..Len(tm.batches) :
    LET B == tm.batches[b]
        ids == IdsOfBatch(b)
        k == Cardinality(ids \cap tm.failed)
    IN
    /\ B.status # "rejected"
    /\ B.status = "fulfilled" =>
         /\ Cardinality(ids) = Len(B.urls)
         /\ ids \subseteq LogIds
         /\ Cardinality({id \in ids : LogsAt(id, {"error"}) # {}}) = k
         /\ Cardinality({id \in ids : LogsAt(id, {"success"}) # {}}) = Len(B.urls) - k
         /\ \A id \in ids : Cardinality(LogsAt(id, Terminal)) = 1
    /\ Len(B.urls) = 0 => (ids = {} /\ B.status = "fulfilled")

\* a batch of three URLs has completed after exactly one of its GETs failed
C5_Witness ==
  \E b \in 1..Len(tm.batches) :
    /\ tm.batches[b].status = "fulfilled"
    /\ Len(tm.batches[b].urls) = 3
    /\ Cardinality(IdsOfBatch(b) \cap tm.failed) = 1

C7_CompletesAfterAllSettled ==
  \A b \in 1..Len(tm.batches) :
    /\ tm.batches[b].status # "rejected"
    /\ tm.batches[b].status = "fulfilled" =>
         /\ tm.batches[b].settled = Len(tm.batches[b].urls)
         /\ \A id \in IdsOfBatch(b) : LogsAt(id, Terminal) # {} /\ ~Outstanding(id)
    /\ tm.batches[b].status = "pending" => \E id \in IdsOfBatch(b) : Outstanding(id)

\* a batch of two is complete although both GETs failed, while the batch
\* fired before it still waits for its attempt
C7_Witness ==
  \E b \in 1..Len(tm.batches) :
    /\ b > 1
    /\ tm.batches[b].status = "fulfilled"
    /\ Len(tm.batches[b].urls) = 2
    /\ IdsOfBatch(b) \subseteq tm.failed
    /\ tm.batches[b - 1].status = "pending"

\* positions in tm.io of the pending and of the terminal logs of batch b
PendingsOfBatch(b) ==
  {i \in 1..Len(tm.io) : /\ tm.io[i].op = "log"
                          /\ tm.io[i].status = "pending"
                          /\ tm.batchOf[tm.io[i].id] = b}

TerminalsOfBatch(b) ==
  {i \in 1..Len(tm.io) : /\ tm.io[i].op = "log"
                          /\ tm.io[i].status \in Terminal
                          /\ tm.batchOf[tm.io[i].id] = b}

\* the tracker URLs of the pending logs of batch b, in the order of tm.io
RECURSIVE UrlsAt(_, _)
UrlsAt(io, b) ==
  IF io = <<>> THEN <<>>
  ELSE (IF Head(io).op = "log" /\ Head(io).status = "pending"
           /\ tm.batchOf[Head(io).id] = b
        THEN <<Head(io).trackerUrl>> ELSE <<>>) \o UrlsAt(Tail(io), b)

\* C31: the pending logs of a batch are emitted in the order of its URL
\* list, all of them before the terminal log of any of its attempts, and
\* the pending logs of an earlier fireTrackers() call all come before those
\* of a later one, whatever the event kinds and the order of the terminal
\* logs.
C31_PendingLogsInCallOrder ==
  \A b \in 1..Len(tm.batches) :
    /\ UrlsAt(tm.io, b) = tm.batches[b].urls
    /\ \A i \in PendingsOfBatch(b) :
         /\ tm.io[i].eventType = tm.batches[b].eventType
         /\ \A j \in TerminalsOfBatch(b) : i < j
         /\ \A c \in 1..Len(tm.batches) :
              b < c => \A j \in PendingsOfBatch(c) : i < j

\* two batches of different event kinds: the two pending logs of the first
\* precede the pending log of the second, whose terminal log came first
C31_Witness ==
  /\ Len(tm.batches) = 2
  /\ tm.batches[1].eventType # tm.batches[2].eventType
  /\ tm.batches[1].urls = <<"t1", "t2">>
  /\ Len(tm.batches[2].urls) = 1
  /\ TerminalsOfBatch(2) # {}
  /\ Cardinality(TerminalsOfBatch(1)) = 2
  /\ \A i \in TerminalsOfBatch(1) : \A j \in TerminalsOfBatch(2) : j < i

(* --------------------- specification of the detector ------------------- *)
\* every event kind the detector can fire has one URL, or only Start has
FullTracking ==
  [e \in Milestones \cup {"Pause", "Resume", "Mute", "Unmute"} |-> <<"t1">>]

DetectorTracking == {FullTracking, [Start |-> <<"s1">>]}

\* the media lengths the sink reports once it knows them
Durations == {MaxDuration \div 2, MaxDuration}

DetectorInit ==
  /\ tm = NewTrackingManager
  /\ IdleParser
  /\ IdleContainer
  /\ IdleCalc
  /\ IdleHook
  /\ \E p \in BOOLEAN, m \in BOOLEAN :
       video = [NewVideo EXCEPT !.src = "m1", !.paused = p, !.muted = m]
  /\ \E trackingUrls \in DetectorTracking, cfg \in 0..MaxToleranceCfg :
       qt = NewQuartileTracker(trackingUrls, EffectiveTolerance(cfg))
  /\ fires = NoFires

\* the sink changes to v and dispatches an event of the given kind; a
\* session is followed up to MaxFires dispatches per event kind and MaxFires
\* dispatches of play-state and volume events in all
Deliver(kind, v) ==
  /\ video' = v
  /\ qt' = Dispatch(kind, qt, v)
  /\ fires' = countCalls(fires, qt'.calls)
  /\ \A e \in Events : fires'[e] <= MaxFires
  /\ fires'["Pause"] + fires'["Resume"] + fires'["Mute"] + fires'["Unmute"] <= MaxFires
  /\ UNCHANGED <<parserVars, tm, containerVars, calc>>

\* the owner starts a tracking session
TrackerInit ==
  /\ ~qt.attached
  /\ qt' = trackerInit(qt, video)
  /\ fires' = NoFires
  /\ UNCHANGED <<parserVars, tm, video, containerVars, calc>>

\* the owner tears the session down
TrackerDestroy ==
  /\ qt.attached
  /\ qt' = trackerDestroy(qt)
  /\ UNCHANGED <<parserVars, tm, video, fires, containerVars, calc>>

\* the sink learns the length of the medium (no listener of the detector)
DurationChange ==
  /\ video.duration = 0
  /\ \E d \in Durations : video' = [video EXCEPT !.duration = d]
  /\ UNCHANGED <<parserVars, tm, qt, fires, containerVars, calc>>

\* a position sample, at any position (playback, or a seek either way)
TimeUpdate ==
  \E t \in 0..MaxDuration :
    /\ video.duration = 0 \/ t <= video.duration
    /\ Deliver("timeupdate", [video EXCEPT !.currentTime = t])

\* the end-of-media signal
Ended ==
  Deliver("ended", [video EXCEPT !.currentTime = video.duration, !.paused = TRUE])

PauseEvent == Deliver("pause", [video EXCEPT !.paused = TRUE])

PlayEvent == Deliver("play", [video EXCEPT !.paused = FALSE])

VolumeChange == \E m \in BOOLEAN : Deliver("volumechange", [video EXCEPT !.muted = m])

DetectorNext ==
  \/ TrackerInit \/ TrackerDestroy \/ DurationChange \/ TimeUpdate
  \/ Ended \/ PauseEvent \/ PlayEvent \/ VolumeChange

SpecDetector == DetectorInit /\ [][DetectorNext]_vars

(* ------------------------- claims on the detector ---------------------- *)
\* C4: within one tracking session every milestone is dispatched at most
\* once, and while the session lasts a fired flag never goes back from
\* fired to unfired.
C4_MilestonesFireOnce ==
  /\ [](\A e \in Milestones : fires[e] <= 1)
  /\ [][(qt.attached /\ qt'.attached) =>
          \A i \in 1..Len(Quartiles) : qt.fired[i] => qt'.fired[i]]_vars

\* FirstQuartile was dispatched once and stays fired although the position
\* is now before its tolerance window and before Midpoint was ever reached
C4_Witness ==
  /\ qt.attached
  /\ qt.fired[2]
  /\ ~qt.fired[3]
  /\ fires["FirstQuartile"] = 1
  /\ video.duration = MaxDuration
  /\ ~isWithinTolerance(video.currentTime, video.duration, 1, qt.tolerance)
  /\ ~hasPassedThreshold(video.currentTime, video.duration, 1)

\* the entry of Complete in this.quartiles
CompleteIndex == CHOOSE i \in 1..Len(Quartiles) : Quartiles[i].event = "Complete"

\* the detector after an end-of-media signal in the current state
AfterEnded == Dispatch("ended", qt, video)

\* C18: in a session, an end-of-media signal leaves Complete fired: it
\* dispatches the Complete URLs when Complete was unfired and does nothing
\* when it was fired; and once Complete is fired its URLs have been
\* dispatched exactly once in the session, whichever of a position sample and
\* the end-of-media signal came first, the length of the medium known or not.
C18_EndedForcesCompleteOnce ==
  qt.attached =>
    /\ AfterEnded.fired[CompleteIndex]
    /\ qt.fired[CompleteIndex] =>
         (AfterEnded.calls = <<>> /\ AfterEnded.fired = qt.fired)
    /\ ~qt.fired[CompleteIndex] =>
         /\ \A i \in 1..Len(Quartiles) :
              i # CompleteIndex => AfterEnded.fired[i] = qt.fired[i]
         /\ AfterEnded.calls =
              IF urlsOf(qt.trackingUrls, "Complete") = <<>> THEN <<>>
              ELSE <<(<<"Complete", urlsOf(qt.trackingUrls, "Complete")>>)>>
    /\ qt.fired[CompleteIndex] =>
         fires["Complete"] = IF urlsOf(qt.trackingUrls, "Complete") = <<>> THEN 0 ELSE 1

\* the end-of-media signal has fired Complete in a session that never knew
\* the length of the medium, so that no position sample fired anything
C18_Witness ==
  /\ qt.attached
  /\ video.duration = 0
  /\ qt.fired[CompleteIndex]
  /\ fires["Complete"] = 1
  /\ ~qt.fired[1]
\* the detector after a position sample at position t in the current state
AfterSample(t) == Dispatch("timeupdate", qt, [video EXCEPT !.currentTime = t])

\* position t is within the tolerance of the threshold time of milestone i,
\* or at or past the threshold (times in quarters of a tick)
SampleReaches(i, t) ==
  LET target4 == video.duration * Quartiles[i].percent4 IN
  \/ (4 * t - target4 <= 4 * qt.tolerance /\ target4 - 4 * t <= 4 * qt.tolerance)
  \/ 4 * t >= target4

\* C21: with a known positive duration, a position sample fires exactly the
\* unfired milestones whose threshold it is within tolerance of or has
\* passed: fired ones stay fired, a milestone more than the tolerance ahead
\* stays unfired, and a seek past several thresholds fires them all in the
\* one sample.
C21_SampleFiresExactlyReached ==
  (qt.attached /\ video.duration > 0) =>
    \A t \in 0..video.duration :
      \A i \in 1..Len(Quartiles) :
        AfterSample(t).fired[i] <=> (qt.fired[i] \/ SampleReaches(i, t))

\* one sample, after a seek to the middle of the medium at the default
\* tolerance, has fired Start, FirstQuartile and Midpoint and left
\* ThirdQuartile unfired
C21_Witness ==
  /\ qt.attached
  /\ video.duration = MaxDuration
  /\ qt.tolerance = DefaultTolerance
  /\ 2 * video.currentTime = video.duration
  /\ Len(qt.calls) = 3
  /\ qt.calls[1][1] = "Start"
  /\ qt.calls[2][1] = "FirstQuartile"
  /\ qt.calls[3][1] = "Midpoint"
  /\ ~qt.fired[4]

\* the notifications the sink can deliver
EventKinds == {"timeupdate", "ended", "pause", "play", "volumechange"}

\* the sink at its start, where it is and at its end, in any play and mute
\* state
SinkStates ==
  {[video EXCEPT !.currentTime = t, !.paused = p, !.muted = m] :
     t \in {0, video.currentTime, video.duration}, p \in BOOLEAN, m \in BOOLEAN}

\* the detector after a teardown in the current state
TornDown == trackerDestroy(qt)

\* C24: a teardown leaves all five thresholds unfired and the detector deaf:
\* no notification of the sink, in whatever state the sink is, makes it
\* dispatch or change; and between a teardown and the next session no step
\* dispatches anything.
C24_TeardownDetachesAndResets ==
  /\ [](/\ \A i \in 1..Len(Quartiles) : ~TornDown.fired[i]
        /\ \A kind \in EventKinds, v \in SinkStates :
             Dispatch(kind, TornDown, v) = TornDown)
  /\ [][(~qt.attached /\ ~qt'.attached) => (fires' = fires /\ qt'.calls = <<>>)]_vars

\* a session that was playing and had fired Start and FirstQuartile has been
\* torn down, and the sink has paused since
C24_Witness ==
  /\ ~qt.attached
  /\ qt.wasPlaying
  /\ video.paused
  /\ video.currentTime < video.duration
  /\ fires["Start"] = 1
  /\ fires["FirstQuartile"] = 1
  /\ \A i \in 1..Len(Quartiles) : ~qt.fired[i]

\* the detector after a play notification in the current state
AfterPlay == Dispatch("play", qt, video)

\* C26: in a session, a play notification fires Resume only when the
\* was-playing flag is false and the position is > 0, and Resume is fired
\* only after a Pause was detected in the same session (with URLs for both
\* kinds, a dispatch of Resume follows a dispatch of Pause), so that the
\* first play of a session is never taken for a resume.
C26_ResumeOnlyAfterPause ==
  qt.attached =>
    /\ AfterPlay.calls # <<>> => (~qt.wasPlaying /\ video.currentTime > 0)
    /\ (urlsOf(qt.trackingUrls, "Pause") # <<>> /\ fires["Resume"] > 0) =>
         fires["Pause"] > 0

\* the detector after a volume notification that finds the sink's muted flag
\* at m
AfterVolumeChange(m) == Dispatch("volumechange", qt, [video EXCEPT !.muted = m])

\* the onFire call of an event kind, if it has URLs
CallsFor(e) ==
  IF urlsOf(qt.trackingUrls, e) = <<>> THEN <<>>
  ELSE <<(<<e, urlsOf(qt.trackingUrls, e)>>)>>

\* C27: in a session the last observed muted flag is the sink's; a volume
\* notification with the flag unchanged fires nothing and changes nothing,
\* one with the flag changed fires Mute (now muted) or Unmute (now unmuted)
\* and records the flag; so the Mute and Unmute dispatches of a session
\* alternate: their counts differ by at most one, Mute ahead only while
\* muted and Unmute ahead only while unmuted.
C27_MuteOnEdgesAlternating ==
  qt.attached =>
    /\ qt.wasMuted = video.muted
    /\ AfterVolumeChange(qt.wasMuted) = [qt EXCEPT !.calls = <<>>]
    /\ AfterVolumeChange(~qt.wasMuted) =
         [qt EXCEPT !.wasMuted = ~qt.wasMuted,
                    !.calls = CallsFor(IF qt.wasMuted THEN "Unmute" ELSE "Mute")]
    /\ urlsOf(qt.trackingUrls, "Mute") # <<>> =>
         fires["Mute"] - fires["Unmute"] \in (IF qt.wasMuted THEN {0, 1} ELSE {-1, 0})

\* a session that started unmuted has dispatched Mute and then Unmute
C27_Witness ==
  /\ qt.attached
  /\ fires["Mute"] = 1
  /\ fires["Unmute"] = 1
  /\ ~qt.wasMuted
  /\ qt.calls # <<>>
  /\ qt.calls[1][1] = "Unmute"

\* the milestones in the order of the medium
MilestoneOrder == <<"Start", "FirstQuartile", "Midpoint", "ThirdQuartile", "Complete">>

\* the fired flag of the milestone of rank k in detector q
FiredAt(q, k) ==
  \E i \in 1..Len(Quartiles) : Quartiles[i].event = MilestoneOrder[k] /\ q.fired[i]

\* the fired milestones of q up to rank n are downward closed
DownwardClosed(q, n) == \A j, k \in 1..n : (j < k /\ FiredAt(q, k)) => FiredAt(q, j)

\* the rank of a milestone
RankOf(e) == CHOOSE k \in 1..Len(MilestoneOrder) : MilestoneOrder[k] = e

\* C29: position samples keep the fired milestones downward closed in the
\* order Start < FirstQuartile < Midpoint < ThirdQuartile < Complete, for
\* every duration, tolerance and position: a sample taken on a downward
\* closed set leaves a downward closed set and dispatches its milestones in
\* that order; the end-of-media signal, which fires Complete alone, apart,
\* the milestones before Complete are downward closed in every state.
C29_FiredDownwardClosedInOrder ==
  qt.attached =>
    /\ DownwardClosed(qt, Len(MilestoneOrder) - 1)
    /\ \A t \in 0..MaxDuration :
         /\ DownwardClosed(qt, Len(MilestoneOrder)) =>
              DownwardClosed(AfterSample(t), Len(MilestoneOrder))
         /\ \A a, b \in 1..Len(AfterSample(t).calls) :
              a < b => RankOf(AfterSample(t).calls[a][1]) < RankOf(AfterSample(t).calls[b][1])

\* samples alone have fired all five milestones; the last one, after a seek
\* from before the third quarter to the end, dispatched ThirdQuartile and
\* then Complete
C29_Witness ==
  /\ qt.attached
  /\ video.duration = MaxDuration
  /\ video.currentTime = video.duration
  /\ ~video.paused
  /\ \A i \in 1..Len(Quartiles) : qt.fired[i]
  /\ Len(qt.calls) = 2
  /\ qt.calls[1][1] = "ThirdQuartile"
  /\ qt.calls[2][1] = "Complete"

\* C30: in a session, a position sample taken while the duration is unknown
\* dispatches nothing and leaves the fired flags and the was-playing and
\* was-muted flags as they are, at every position; a sample taken with a
\* known duration leaves Start fired at every position, and dispatches it
\* first if it was unfired.
C30_UnknownDurationFiresNothing ==
  qt.attached =>
    \A t \in 0..MaxDuration :
      /\ video.duration = 0 => AfterSample(t) = [qt EXCEPT !.calls = <<>>]
      /\ video.duration > 0 =>
           /\ AfterSample(t).fired[1]
           /\ Quartiles[1].event = "Start"
           /\ (~qt.fired[1] /\ urlsOf(qt.trackingUrls, "Start") # <<>>) =>
                AfterSample(t).calls[1] = <<"Start", urlsOf(qt.trackingUrls, "Start")>>

\* the first sample that dispatched anything in the session was taken at the
\* end of the medium: it dispatched Start and the four others
C30_Witness ==
  /\ qt.attached
  /\ video.duration = MaxDuration
  /\ video.currentTime = video.duration
  /\ Len(qt.calls) = 5
  /\ qt.calls[1][1] = "Start"
  /\ fires["Start"] = 1

(* -------------------- specification of the orchestrator ---------------- *)
\* The continuation of an await runs in microtasks, before any further call
\* or event is served: it is part of the action that resumes it.
\* The documents url may serve: a fetch failure, an InLine without beacons,
\* the InLine of the resolver's specification, a Wrapper of the next URL.
ContainerDocs(url) ==
  {BareDoc("FetchFail"),
   Doc("InLine", NoUrl, TRUE, <<Media("m2", "video/webm", 300)>>, <<>>, NoTracking)}
  \cup InLineDocs \cup {d \in WrapperDocs : d.uri = url + 1}

\* The container is constructed as useVastAd constructs it, with
\* maxWrapperDepth 3, and with either value of autoPlay.
ContainerInit ==
  /\ maxWrapperDepth = EffectiveDepth(DefaultMaxWrapperDepth)
  /\ visitedUrls = {}
  /\ pstack = <<>>
  /\ inflight = {}
  /\ presult = Pending
  /\ docs = [u \in URLs |-> Unknown]
  /\ topUrl = NoUrl
  /\ fetchLog = <<>>
  /\ resolves = 0
  /\ tm = NewTrackingManager
  /\ IdleDetector
  /\ \E autoPlay \in BOOLEAN : ac = NewAdContainer(1, autoPlay)
  /\ h = NewHistory
  /\ IdleCalc
  /\ IdleHook

\* any action other than destroy() ends a run of destroy() calls
Step(w) == [w EXCEPT !.h.destroyRun = 0]

\* a call from outside
Call(w) == [w EXCEPT !.h.calls = @ + 1]

\* init() is called: it runs into parse(), which throws or awaits its fetch
InitCall ==
  /\ h.calls < MaxCalls
  /\ LET e == parseEntry(ac.vastUrl, 0, maxWrapperDepth, visitedUrls)
         w == [Call(Step(World)) EXCEPT !.h.destroyed = FALSE]
     IN IF e = NoError
        THEN /\ pstack = <<>>
             /\ ParseStart(ac.vastUrl)
             /\ Becomes([w EXCEPT !.ac.pc = "parse"])
        ELSE /\ UNCHANGED parserVars
             /\ Becomes(initRejects(w, e.message))

\* a document GET settles: parse() resumes, and init() with it once the
\* top-level parse() has settled
InitFetchSettle ==
  \E url \in URLs, readyState \in {0, 2} : \E doc \in ContainerDocs(url) :
    /\ FetchAnswers(url, doc, ContainerDocs(url))
    /\ ParseResume(url, doc)
    /\ IF pstack' = <<>>
       THEN Becomes(initAfterParse(Step(World), presult', readyState))
       ELSE readyState = 0 /\ Becomes(Step(World))

\* the sink reports loadedmetadata for the source it was given
VideoReady ==
  /\ video.src # NoSrc
  /\ video.readyState = 0
  /\ Becomes(waitSignal([Step(World) EXCEPT !.video.readyState = 1,
                                            !.video.duration = MaxDuration],
                        "loadedmetadata"))

\* the sink reports error
VideoLoadError ==
  Becomes(waitSignal(Step(World), "error"))

\* the 10 s timer of waitForVideoReady fires
VideoLoadTimeout ==
  /\ "timeout" \in ac.wait
  /\ Becomes(waitSignal(Step(World), "timeout"))

ContainerBeaconSettle ==
  /\ \E r \in tm.requests, ok \in BOOLEAN :
       Becomes(containerBeaconSettles(Step(World), r, ok))
  /\ UNCHANGED parserVars

\* play() is called from outside
PlayCall ==
  /\ h.calls < MaxCalls
  /\ Becomes(play(Call(Step(World))))
  /\ UNCHANGED parserVars

\* the sink settles a playback start
PlaySettle ==
  /\ ac.playPending > 0
  /\ \E ok \in BOOLEAN : Becomes(playSettles(Step(World), ok))
  /\ UNCHANGED parserVars

\* destroy() is called
DestroyCall ==
  /\ h.calls < MaxCalls
  /\ Becomes([destroy(Call(World)) EXCEPT !.h.destroyed = TRUE,
                                    !.h.destroyRun = IF @ < 2 THEN @ + 1 ELSE @])
  /\ UNCHANGED parserVars

ContainerNext ==
  \/ InitCall \/ InitFetchSettle
  \/ (VideoReady /\ UNCHANGED parserVars)
  \/ (VideoLoadError /\ UNCHANGED parserVars)
  \/ (VideoLoadTimeout /\ UNCHANGED parserVars)
  \/ ContainerBeaconSettle \/ PlayCall \/ PlaySettle \/ DestroyCall

SpecContainer == ContainerInit /\ [][ContainerNext]_vars

\* the transport settles every beacon GET
BeaconsSettle == WF_vars(ContainerBeaconSettle)

SpecContainerFair == SpecContainer /\ BeaconsSettle
(* ------------------------ claims on the orchestrator ------------------- *)
\* the URLs of the pending Impression logs emitted so far
PendingImpressionAt(io, trackerUrl) ==
  \E j \in 1..Len(io) :
    /\ io[j].op = "log"
    /\ io[j].eventType = "Impression"
    /\ io[j].status = "pending"
    /\ io[j].trackerUrl = trackerUrl

\* a step in which videoElement.play() is called
SinkPlayRequested == ac'.playPending > ac.playPending

\* pending Impression logs in io
ImpressionPendings(io) ==
  Len(SelectSeq(io, LAMBDA x : x.op = "log" /\ x.eventType = "Impression"
                                /\ x.status = "pending"))

\* C8: whenever the orchestrator calls the sink's play operation (auto-play
\* inside init() or a play() call from outside), an ad has been resolved and
\* the pending log of every one of its Impression URLs was emitted before.
C8_ImpressionsBeforePlay ==
  [][SinkPlayRequested =>
       /\ ~ac'.parsedVast.isNull
       /\ \A i \in 1..Len(ac'.parsedVast.impressions) :
            PendingImpressionAt(tm.io, ac'.parsedVast.impressions[i])]_vars

\* playback was requested for an ad resolved through a wrapper, which has
\* two Impression URLs
C8_Witness ==
  /\ ac.playPending > 0
  /\ ~ac.parsedVast.isNull
  /\ Len(ac.parsedVast.impressions) >= 2
  /\ ImpressionPendings(tm.io) >= 2

\* C9: once destroy() has been called and init() has not been called again,
\* hasAd() is false, no media URL is bound to the sink, no detector is
\* attached, and no step fires an Impression beacon or requests playback.
C9_DestroyedIsTerminal ==
  /\ [](h.destroyed =>
          /\ ~ac.state.hasAd
          /\ video.src = NoSrc
          /\ ~ac.quartileTracker
          /\ ~qt.attached)
  /\ [][(h.destroyed /\ h.destroyed') =>
          /\ ImpressionPendings(tm'.io) = ImpressionPendings(tm.io)
          /\ ~SinkPlayRequested]_vars

\* C10: after every destroy() call hasAd() is false and no detector is
\* attached, and a destroy() call that follows a destroy() call changes
\* neither the orchestrator, the sink nor the detector, and dispatches no
\* beacon.
C10_DestroyIdempotent ==
  /\ [](h.destroyRun >= 1 =>
          /\ ~ac.state.hasAd
          /\ ~ac.quartileTracker
          /\ ~qt.attached)
  /\ [][(h.destroyRun >= 1 /\ h.destroyRun' = 2) =>
          /\ ac' = ac
          /\ video' = video
          /\ qt' = qt
          /\ tm' = tm]_vars

\* destroy() was called twice in a row on a container that had loaded an ad
\* and dispatched its beacons
C10_Witness ==
  /\ h.destroyRun = 2
  /\ tm.io # <<>>
  /\ fetchLog # <<>>

\* the orchestrator states named by the lifecycle, read off the fields
IsDestroyed == h.destroyed
IsError == ~h.destroyed /\ ac.state.hasError
IsInitializing ==
  ~h.destroyed /\ ~ac.state.hasError /\ ac.pc \in {"parse", "video"}
IsCreated ==
  /\ ~h.destroyed
  /\ ~ac.state.hasError
  /\ ac.pc = "idle"
  /\ ~ac.state.isReady
  /\ ac.parsedVast.isNull

\* C11: in the states Created, Initializing, Error and Destroyed a play()
\* call does not ask the sink to start and changes nothing.
C11_PlayOnlyFromReady ==
  (IsCreated \/ IsInitializing \/ IsError \/ IsDestroyed) => play(World) = World

\* the batches fired for eventType
BatchesOf(t, eventType) ==
  {b \in 1..Len(t.batches) : t.batches[b].eventType = eventType}

\* the records appended to the log sink and the transport between t and u
Appended(t, u) == SubSeq(u.io, Len(t.io) + 1, Len(u.io))

\* the tracker URLs of the records of kind op in a stretch of io
UrlsIn(io, op) ==
  LET sel == SelectSeq(io, LAMBDA x : x.op = op)
  IN [i \in 1..Len(sel) |-> sel[i].trackerUrl]

\* the orchestrator after the sink rejected a pending playback start
AfterPlayRejected == playSettles(World, FALSE)

\* C12: whenever a playback start is pending, its rejection leaves the
\* orchestrator with hasError set and a message, and dispatches the resolved
\* ad's Error URLs exactly once, in one batch, when the ad has any, and
\* nothing otherwise.
C12_PlayRejectionBecomesError ==
  ac.playPending > 0 =>
    LET w == AfterPlayRejected
        errorUrls == IF ac.parsedVast.isNull THEN <<>>
                     ELSE urlsOf(ac.parsedVast.tracking, "Error")
    IN
    /\ w.ac.state.hasError
    /\ w.ac.state.errorMessage # ""
    /\ w.ac.playPending = ac.playPending - 1
    /\ UrlsIn(Appended(tm, w.tm), "get") = errorUrls
    /\ UrlsIn(Appended(tm, w.tm), "log") = errorUrls
    /\ \A i \in 1..Len(Appended(tm, w.tm)) :
         Appended(tm, w.tm)[i].eventType = "Error"
    /\ Cardinality(BatchesOf(w.tm, "Error")) =
         Cardinality(BatchesOf(tm, "Error")) + (IF errorUrls = <<>> THEN 0 ELSE 1)

\* the sink has rejected a playback start of an ad that has an Error URL,
\* and the Error beacon is out
C12_Witness ==
  /\ ac.state.hasError
  /\ ac.state.errorMessage = "play() rejected"
  /\ ~ac.parsedVast.isNull
  /\ urlsOf(ac.parsedVast.tracking, "Error") # <<>>
  /\ BatchesOf(tm, "Error") # {}

\* a resolution has completed with at least one media entry and destroy()
\* has not run since
ResolutionCompleted ==
  ~ac.parsedVast.isNull /\ Len(ac.parsedVast.mediaFiles) >= 1

\* hasAd
hasAd(a) == a.state.hasAd

\* C13: hasAd() is true exactly when a resolution has completed with at least
\* one media entry, also while the media-load wait is pending and after it
\* failed.
C13_HasAdIffResolved == hasAd(ac) <=> ResolutionCompleted

\* a step in which the top-level parse() of init() rejects because a
\* document of the chain failed
ChainFails ==
  /\ pstack # <<>>
  /\ pstack' = <<>>
  /\ presult'.status = "err"

Level(impressions, tracking) == [impressions |-> impressions, tracking |-> tracking]

LevelSet ==
  {Level(<<>>, NoTracking),
   Level(<<"a">>, [Start |-> <<"A">>]),
   Level(<<"b", "a">>, [Start |-> <<"B", "A">>, Pause |-> <<"P">>]),
   Level(<<"a">>, [Pause |-> <<"P">>, Mute |-> <<"M">>])}

\* What parseInline returns, with every field of ParsedVast.
InLineResult(impressions, tracking, clickTracking, n) ==
  [isNull |-> FALSE,
   mediaFiles |-> <<Media("m1", "video/mp4", 500), Media("m2", "video/webm", 300)>>,
   impressions |-> impressions, tracking |-> tracking,
   clickThrough |-> <<"through", n>>, clickTracking |-> clickTracking,
   adTitle |-> <<"title", n>>, adDescription |-> <<"description", n>>,
   duration |-> 30 * n, skipOffset |-> 5 * n]

InLineResults ==
  {InLineResult(<<"i">>, [Start |-> <<"S">>, Complete |-> <<"C">>], <<>>, 1),
   InLineResult(<<"a", "i", "a">>, NoTracking, <<"k">>, 2),
   InLineResult(<<>>, [Pause |-> <<"Q", "P">>], <<"k", "k">>, 3)}

\* the sequences over S of length at most n
SeqsUpTo(S, n) == UNION {[1..k -> S] : k \in 0..n}

\* calc.levels   the wrapper levels of the chain, outermost first
\* calc.inline   what the innermost parse() returned
\* calc.left     the levels whose parseWrapper still awaits its nested parse()
\* calc.result   what the innermost settled parse() returned
MergeInit ==
  /\ \E levels \in SeqsUpTo(LevelSet, MaxLevels), inline \in InLineResults :
       calc = [fn |-> "merge", levels |-> levels, inline |-> inline,
               left |-> Len(levels), result |-> inline]
  /\ IdleParser
  /\ tm = NewTrackingManager
  /\ IdleDetector
  /\ IdleContainer
  /\ IdleHook

\* the nested parse() of the innermost waiting parseWrapper returns: it
\* merges its level in and returns
MergeLevel ==
  /\ calc.fn = "merge"
  /\ calc.left > 0
  /\ calc' = [calc EXCEPT
                !.left = @ - 1,
                !.result = mergeVastData(wrapperData(calc.levels[calc.left].impressions,
                                                     calc.levels[calc.left].tracking),
                                         calc.result)]
  /\ UNCHANGED <<parserVars, tm, detectorVars, containerVars>>

MergeNext == MergeLevel

SpecMerge == MergeInit /\ [][MergeNext]_vars

(* -------------------------- claims on the merge ------------------------ *)
\* the URLs of event e at the levels from i on, outermost first
RECURSIVE LevelUrls(_, _, _)
LevelUrls(levels, i, e) ==
  IF i > Len(levels) THEN <<>>
  ELSE urlsOf(levels[i].tracking, e) \o LevelUrls(levels, i + 1, e)

\* the Impression URLs of the levels from i on, outermost first
RECURSIVE LevelImpressions(_, _)
LevelImpressions(levels, i) ==
  IF i > Len(levels) THEN <<>>
  ELSE levels[i].impressions \o LevelImpressions(levels, i + 1)

\* C15: the tracking list of every event kind in the result of a chain is
\* the list of the outermost wrapper level, then of each nested level in
\* chain order, then of the InLine, with no URL dropped, duplicated or
\* reordered; this holds of every partial result on the way out as well.
C15_TrackingMergedInChainOrder ==
  calc.fn = "merge" =>
    /\ DOMAIN calc.result.tracking \subseteq Events
    /\ \A e \in Events :
         urlsOf(calc.result.tracking, e) =
           LevelUrls(calc.levels, calc.left + 1, e) \o urlsOf(calc.inline.tracking, e)

\* a chain of two different levels is merged: Start comes from both levels
\* and the InLine, Pause from one wrapper level only, Complete from the
\* InLine only
C15_Witness ==
  /\ calc.fn = "merge"
  /\ calc.left = 0
  /\ Len(calc.levels) = 2
  /\ calc.levels[1] # calc.levels[2]
  /\ urlsOf(calc.levels[1].tracking, "Start") # <<>>
  /\ urlsOf(calc.levels[2].tracking, "Start") # <<>>
  /\ urlsOf(calc.inline.tracking, "Start") # <<>>
  /\ urlsOf(calc.result.tracking, "Pause") # <<>>
  /\ urlsOf(calc.inline.tracking, "Pause") = <<>>
  /\ urlsOf(calc.result.tracking, "Complete") # <<>>

\* C16: the impression list of the result of a chain is the outermost
\* level's followed by each nested level's in chain order, the InLine's
\* last, and the media list, click-through, click-tracking, title,
\* description, duration and skip offset are those of the InLine.
C16_ImpressionsMergedRestFromInLine ==
  calc.fn = "merge" =>
    /\ calc.result.impressions =
         LevelImpressions(calc.levels, calc.left + 1) \o calc.inline.impressions
    /\ calc.result.mediaFiles = calc.inline.mediaFiles
    /\ calc.result.clickThrough = calc.inline.clickThrough
    /\ calc.result.clickTracking = calc.inline.clickTracking
    /\ calc.result.adTitle = calc.inline.adTitle
    /\ calc.result.adDescription = calc.inline.adDescription
    /\ calc.result.duration = calc.inline.duration
    /\ calc.result.skipOffset = calc.inline.skipOffset

\* a chain of two different levels with Impression URLs is merged into an
\* InLine whose own list repeats a URL
C16_Witness ==
  /\ calc.fn = "merge"
  /\ calc.left = 0
  /\ Len(calc.levels) = 2
  /\ calc.levels[1].impressions # calc.levels[2].impressions
  /\ Len(calc.levels[1].impressions) = 2
  /\ Len(calc.levels[2].impressions) = 1
  /\ Len(calc.inline.impressions) = 3
  /\ calc.inline.clickTracking # <<>>

(* --------------------- specification of the ranking -------------------- *)
\* MIME types: MP4-like, WebM-like, another video type, an unrecognized one
MediaTypes == {"video/mp4", "video/webm", "video/ogg", "text/plain"}

Bitrates == {500, 900}

\* The MediaFile lists extractMediaFiles may hand over; the url of an entry
\* is its position in the document.
MediaLists ==
  UNION {{[i \in 1..k |-> Media(i, tb[i][1], tb[i][2])] :
            tb \in [1..k -> MediaTypes \X Bitrates]} : k \in 0..MaxMedia}

\* calc.mediaFiles  the extracted list, in document order
\* calc.ranked      what prioritizeMediaFiles returned
RankInit ==
  /\ \E mediaFiles \in MediaLists :
       calc = [fn |-> "rank", mediaFiles |-> mediaFiles, done |-> FALSE,
               ranked |-> <<>>]
  /\ IdleParser
  /\ tm = NewTrackingManager
  /\ IdleDetector
  /\ IdleContainer
  /\ IdleHook

\* extractMediaFiles returns this.prioritizeMediaFiles(mediaFiles)
Rank ==
  /\ calc.fn = "rank"
  /\ ~calc.done
  /\ calc' = [calc EXCEPT !.done = TRUE,
                          !.ranked = prioritizeMediaFiles(calc.mediaFiles)]
  /\ UNCHANGED <<parserVars, tm, detectorVars, containerVars>>

RankNext == Rank

SpecRanking == RankInit /\ [][RankNext]_vars

(* ------------------------- claims on the ranking ----------------------- *)
\* the entry a ranks at least as high as the entry b
RanksNoLower(a, b) ==
  \/ getMediaTypeScore(a.type) > getMediaTypeScore(b.type)
  \/ /\ getMediaTypeScore(a.type) = getMediaTypeScore(b.type)
     /\ a.bitrate >= b.bitrate

SameRank(a, b) ==
  getMediaTypeScore(a.type) = getMediaTypeScore(b.type) /\ a.bitrate = b.bitrate

\* C17: the ranked list is a permutation of the extracted one, ordered by
\* type score descending and then bitrate descending, entries of equal score
\* and bitrate in document order; its first entry has the maximal score and,
\* among those, the maximal bitrate; [{mp4,500},{webm,900},{mp4,900}] ranks
\* {mp4,900} first.
C17_RankingStableByScoreThenBitrate ==
  (calc.fn = "rank" /\ calc.done) =>
    LET in == calc.mediaFiles
        out == calc.ranked
    IN
    /\ Len(out) = Len(in)
    /\ \A i \in 1..Len(in) : \E j \in 1..Len(out) : out[j] = in[i]
    /\ \A i, j \in 1..Len(out) :
         i < j => /\ RanksNoLower(out[i], out[j])
                  /\ SameRank(out[i], out[j]) => out[i].url < out[j].url
    /\ \A i \in 1..Len(in) : Len(out) > 0 => RanksNoLower(out[1], in[i])
    /\ in = <<Media(1, "video/mp4", 500), Media(2, "video/webm", 900),
              Media(3, "video/mp4", 900)>>
         => out[1] = Media(3, "video/mp4", 900)

\* the list of the example has been ranked
C17_Witness ==
  /\ calc.fn = "rank"
  /\ calc.done
  /\ calc.mediaFiles = <<Media(1, "video/mp4", 500), Media(2, "video/webm", 900),
                         Media(3, "video/mp4", 900)>>
  /\ calc.ranked[1].url = 3

(* ------------------ specification of the duration parser --------------- *)
\* The characters of a Duration text or skipoffset attribute that matter to
\* parseDuration: decimal digits, the field separator, and one character
\* that is neither.
DurationChars == {"0", "3", "5", ":", "x"}

Digits == {"0", "3", "5"}

DigitValue(c) == CASE c = "0" -> 0 [] c = "3" -> 3 [] c = "5" -> 5

\* the texts of at most MaxDurationLen characters
DurationTexts == UNION {[1..k -> DurationChars] : k \in 0..MaxDurationLen}

\* A JavaScript number: NaN or an integer.
NaN == [nan |-> TRUE, n |-> 0]

Num(n) == [nan |-> FALSE, n |-> n]

Plus(a, b) == IF a.nan \/ b.nan THEN NaN ELSE Num(a.n + b.n)

Times(a, b) == IF a.nan \/ b.nan THEN NaN ELSE Num(a.n * b.n)

\* a || b on numbers: NaN and 0 are falsy
OrElse(a, b) == IF a.nan \/ a.n = 0 THEN b ELSE a

\* the value of a sequence of decimal digits
RECURSIVE DecimalValue(_)
DecimalValue(s) ==
  IF s = <<>> THEN 0
  ELSE 10 * DecimalValue(SubSeq(s, 1, Len(s) - 1)) + DigitValue(s[Len(s)])

\* the longest prefix of s made of digits
RECURSIVE DigitPrefix(_)
DigitPrefix(s) ==
  IF s = <<>> \/ s[1] \notin Digits THEN <<>>
  ELSE <<s[1]>> \o DigitPrefix(Tail(s))

\* parseInt(s, 10) on a text over DurationChars: the leading digits, read in
\* base ten; NaN when the text does not start with a digit.
parseInt(s) ==
  IF DigitPrefix(s) = <<>> THEN NaN ELSE Num(DecimalValue(DigitPrefix(s)))

\* duration.split(':'): the fields between the separators; the empty text
\* has one empty field.
RECURSIVE split(_)
split(s) ==
  IF \A i \in 1..Len(s) : s[i] # ":" THEN <<s>>
  ELSE LET i == CHOOSE k \in 1..Len(s) :
                  s[k] = ":" /\ \A j \in 1..(k - 1) : s[j] # ":"
       IN <<SubSeq(s, 1, i - 1)>> \o split(SubSeq(s, i + 1, Len(s)))

parseDuration(duration) ==
  LET parts == [i \in 1..Len(split(duration)) |-> parseInt(split(duration)[i])]
  IN IF Len(parts) = 3
       THEN Plus(Plus(Times(parts[1], Num(3600)), Times(parts[2], Num(60))),
                 parts[3])
       ELSE OrElse(parseInt(duration), Num(0))

\* calc.text   the text of the Duration element or skipoffset attribute
\* calc.value  what parseDuration returned
DurationInit ==
  /\ \E text \in DurationTexts :
       calc = [fn |-> "duration", text |-> text, done |-> FALSE, value |-> Num(0)]
  /\ IdleParser
  /\ tm = NewTrackingManager
  /\ IdleDetector
  /\ IdleContainer
  /\ IdleHook

\* parseDuration(duration) is called and returns
ParseDurationText ==
  /\ calc.fn = "duration"
  /\ ~calc.done
  /\ calc' = [calc EXCEPT !.done = TRUE, !.value = parseDuration(calc.text)]
  /\ UNCHANGED <<parserVars, tm, detectorVars, containerVars>>

DurationNext == ParseDurationText

SpecDuration == DurationInit /\ [][DurationNext]_vars

(* --------------------- claims on the duration parser ------------------- *)
\* a non-empty text of decimal digits only
IsInteger(s) == s # <<>> /\ \A i \in 1..Len(s) : s[i] \in Digits

\* the number of seconds the duration grammar gives a text
GrammarSeconds(s) ==
  LET f == split(s) IN
  IF Len(f) = 3 /\ \A i \in 1..3 : IsInteger(f[i])
    THEN DecimalValue(f[1]) * 3600 + DecimalValue(f[2]) * 60 + DecimalValue(f[3])
  ELSE IF IsInteger(s) THEN DecimalValue(s)
  ELSE 0

\* C20: every text maps to a number of seconds: three colon-separated
\* integer fields H:M:S give H*3600+M*60+S, any other bare integer gives
\* itself, and every other text (three fields not all integers included)
\* gives 0.
C20_DurationGrammar ==
  (calc.fn = "duration" /\ calc.done) =>
    calc.value = Num(GrammarSeconds(calc.text))

\* C23: an init() called after destroy(), with no earlier init() in flight,
\* starts as init() on a freshly created instance does: it rejects nothing,
\* requests the document of its VAST URL, and leaves the orchestrator in its
\* initial state, awaiting its resolve.
C23_InitAfterDestroyAsFresh ==
  [][(h.destroyed /\ ~h'.destroyed /\ ac.pc = "idle") =>
       /\ ac'.state = InitialState
       /\ ac'.parsedVast = NullVast
       /\ ac'.pc = "parse"
       /\ inflight' = {ac.vastUrl}]_vars

\* C32: when destroy() was called while a playback start requested by play()
\* is pending, the settlement of that request, fulfilled or rejected, leaves
\* the state destroy() wrote (isReady, hasAd, isPlaying and hasError false)
\* and dispatches nothing.
C32_PlaySettlesAfterDestroy ==
  (h.destroyed /\ ac.playPending > 0 /\ ac.state = InitialState) =>
    \A ok \in BOOLEAN :
      /\ playSettles(World, ok).ac.state = InitialState
      /\ playSettles(World, ok).tm = tm

\* C33: provided the transport settles every GET, every pending log is
\* followed by a terminal log of the same id: an attempt whose terminal log
\* is not out yet has its request outstanding, again and again no request
\* is outstanding (so each one comes to its end), and a destroy() call
\* leaves the outstanding requests and the emitted logs as they are.
C33_PendingLogLeadsToTerminal ==
  /\ [](\A id \in LogIds : LogsAt(id, Terminal) = {} => Outstanding(id))
  /\ []<>(tm.requests = {})
  /\ [][(h'.destroyRun > h.destroyRun \/ (h.destroyRun = 2 /\ h'.destroyRun = 2)) =>
          (tm'.requests = tm.requests /\ tm'.io = tm.io)]_vars

\* destroy() has been called while a beacon request was outstanding, and the
\* request still is
C33_Witness ==
  /\ h.destroyed
  /\ h.destroyRun = 1
  /\ tm.requests # {}
  /\ \E r \in tm.requests : LogsAt(r.id, {"pending"}) # {}

\* the messages of the two failures of waitForVideoReady
LoadFailures == {"Video loading failed", "Video loading timeout"}

\* a step in which pending Impression logs are emitted
ImpressionsDispatched == ImpressionPendings(tm'.io) > ImpressionPendings(tm.io)

\* a step in which the wait for the sink ends in a load error or the timeout
LoadWaitFails ==
  /\ ac.pc = "video"
  /\ ac'.pc = "idle"
  /\ ac'.state.errorMessage \in LoadFailures

\* the Error URLs of the ad the orchestrator holds
ErrorUrlsOf(vast) ==
  IF ~vast.isNull /\ "Error" \in DOMAIN vast.tracking
  THEN {vast.tracking["Error"][i] : i \in 1..Len(vast.tracking["Error"])}
  ELSE {}

\* C34: pending Impression logs are emitted only in a step of an in-flight
\* init() in which resolution has succeeded, the sink has data (readyState
\* at least 1 on the resolved media URL) and the state has become Ready with
\* the ad; that step emits each Impression URL once and ends the wait of that
\* init() call, so an init() call dispatches them at most once. When the wait
\* for the sink ends in a load error or the timeout, init() rejects with the
\* error recorded, no Impression is emitted, and everything the step emits
\* is an Error attempt on an Error URL of the resolved ad; no Impression was
\* emitted while the state shows a load failure.
C34_ImpressionsOnlyWhenReady ==
  /\ [][ImpressionsDispatched =>
          /\ ac.pc \in {"parse", "video"}
          /\ ac'.pc \notin {"parse", "video"}
          /\ presult'.status = "ok"
          /\ ~ac'.parsedVast.isNull
          /\ video'.src = ac'.parsedVast.mediaFiles[1].url
          /\ video'.readyState >= 1
          /\ ac'.state.isReady
          /\ ac'.state.hasAd
          /\ ImpressionPendings(tm'.io) =
               ImpressionPendings(tm.io) + Len(ac'.parsedVast.impressions)]_vars
  /\ [][LoadWaitFails =>
          /\ ~ImpressionsDispatched
          /\ ac'.state.hasError
          /\ ~ac'.state.isReady
          /\ Len(tm'.io) >= Len(tm.io)
          /\ \A j \in (Len(tm.io) + 1)..Len(tm'.io) :
               /\ tm'.io[j].eventType = "Error"
               /\ tm'.io[j].trackerUrl \in ErrorUrlsOf(ac.parsedVast)
          /\ \A r \in tm'.requests \ tm.requests :
               /\ r.eventType = "Error"
               /\ r.trackerUrl \in ErrorUrlsOf(ac.parsedVast)]_vars
  /\ [](ac.state.errorMessage \in LoadFailures => ImpressionPendings(tm.io) = 0)

\* the wait for the sink timed out for an ad that carries Impression and
\* Error URLs: the Error URL was attempted and no Impression was
C34_Witness ==
  /\ ac.state.errorMessage = "Video loading timeout"
  /\ ~ac.parsedVast.isNull
  /\ Len(ac.parsedVast.impressions) >= 1
  /\ ErrorUrlsOf(ac.parsedVast) # {}
  /\ \E j \in 1..Len(tm.io) : tm.io[j].op = "log" /\ tm.io[j].eventType = "Error"
  /\ ImpressionPendings(tm.io) = 0

\* a step in which the promise of waitForVideoReady settles
LoadWaitSettles == ac.pc = "video" /\ ac'.pc # "video"

\* C35: the two listeners and the timer of waitForVideoReady are installed
\* together and exactly while init() awaits the wait; the wait settles in
\* one step, by loadedmetadata (init() goes on), by the sink's error ("Video
\* loading failed") or by the timer ("Video loading timeout"), and that step
\* removes both listeners and cancels the timer; a signal that arrives while
\* init() is not in the wait changes nothing of the orchestrator, the
\* detector or the dispatcher.
C35_LoadWaitSettlesOnce ==
  /\ [](ac.wait = IF ac.pc = "video" THEN WaitSignals ELSE {})
  /\ [][LoadWaitSettles =>
          /\ ac'.wait = {}
          /\ \/ /\ video.readyState = 0
                /\ video'.readyState = 1
                /\ ac'.state.isReady \/ ac'.state.errorMessage = "TypeError"
             \/ /\ video' = video
                /\ ac'.pc = "idle"
                /\ ac'.state.errorMessage \in LoadFailures]_vars
  /\ [][(ac.pc # "video" /\ (VideoReady \/ VideoLoadError \/ VideoLoadTimeout)) =>
          (ac' = ac /\ tm' = tm /\ qt' = qt)]_vars

\* loadedmetadata ended the wait and init() went on to Ready; the listeners
\* and the timer are gone
C35_Witness ==
  /\ video.readyState = 1
  /\ ac.state.isReady
  /\ ac.pc # "video"
  /\ ac.wait = {}

\* a step in which init() asks the sink to start: not a call from outside
AutoPlayRequested == SinkPlayRequested /\ h'.calls = h.calls

\* a step in which an init() call that got past parse() runs to its end
\* without throwing
InitResolves ==
  /\ ac.pc # "idle"
  /\ ac'.pc = "idle"
  /\ ac.pc = "imps" \/ (ac'.quartileTracker /\ ~ac.quartileTracker)

\* terminal Impression logs in io
ImpressionTerminals(io) ==
  Len(SelectSeq(io, LAMBDA x : x.op = "log" /\ x.eventType = "Impression"
                                /\ x.status \in {"success", "error"}))

hookIdle == <<parserVars, tm, detectorVars, ac, h, calc>>

HookInit ==
  /\ IdleParser
  /\ tm = NewTrackingManager
  /\ IdleDetector
  /\ IdleContainer
  /\ IdleCalc
  /\ hook = NewHook

\* loadAd is called
LoadAdCall ==
  /\ Len(hook.containers) < MaxLoads
  /\ hook' = loadAd(hook)
  /\ UNCHANGED hookIdle

\* the sink reports its data to the init() of container i
HookInitReady ==
  \E i \in 1..Len(hook.containers) :
    /\ hook.containers[i].pc = "loading"
    /\ hook' = hookInitReady(hook, i)
    /\ UNCHANGED hookIdle

\* the Impression attempts of container i have settled: its init() resolves
\* and the loadAd call that awaits it resumes
HookInitResolves ==
  \E i \in 1..Len(hook.containers) :
    /\ hook.containers[i].pc = "imps"
    /\ hook' = loadAdInitResolved(hook, i)
    /\ UNCHANGED hookIdle

\* parse() or waitForVideoReady of container i rejects: its init() rejects
\* and the loadAd call that awaits it resumes in its catch block
HookInitRejects ==
  \E i \in 1..Len(hook.containers) :
    /\ hook.containers[i].pc = "loading"
    /\ hook' = loadAdInitRejected(hook, i)
    /\ UNCHANGED hookIdle

\* the component unmounts
Unmount ==
  /\ hook.videoRef
  /\ hook' = unmount(hook)
  /\ UNCHANGED hookIdle

HookNext ==
  LoadAdCall \/ HookInitReady \/ HookInitResolves \/ HookInitRejects \/ Unmount

SpecHook == HookInit /\ [][HookNext]_vars

(* ---------------------------- claims on the hook ----------------------- *)
\* the containers whose QuartileTracker listens to the video element
Observers == {i \in 1..Len(hook.containers) : hook.containers[i].quartileTracker}

\* C37: every AdContainer but the one created last has been destroyed, and
\* at most one AdContainer has a QuartileTracker on the video element.
C37_SinkOwnedByOne ==
  /\ \A i \in 1..Len(hook.containers) - 1 : hook.containers[i].destroyed
  /\ Cardinality(Observers) <= 1

====
